---------------------------- MODULE Spec2Model ----------------------------
(***************************************************************************)
(* nghttpx (src/shrpx.cc): the bootstrap of the reverse proxy.             *)
(*                                                                         *)
(* The model follows main() and event_loop() statement by statement: the   *)
(* option scan, the configuration merge, the TLS context setup, the        *)
(* cross-field validation, address resolution, the rate-limit descriptor,  *)
(* daemonization, the PID file, the two listeners, the privilege drop and  *)
(* the event loop.  Every system call and every call into another          *)
(* translation unit is an environment step whose outcome is chosen with \E *)
(* among the outcomes the call can have.                                   *)
(*                                                                         *)
(* Representation notes.                                                   *)
(*  - argv is not stored: each getopt_long() call draws the next option    *)
(*    from CmdOptions, at most MaxArgs times.                              *)
(*  - cmdcfgs holds the entries of the vector that the parse loop has not  *)
(*    applied yet (the pair (cmdcfgs, i) of the code, as the suffix from   *)
(*    i on).                                                               *)
(*  - src_file / src_cli / sub_file / sub_cli are history variables: what  *)
(*    the config file and the command line asked for, recorded when the    *)
(*    input is read, not when it is applied.                               *)
(***************************************************************************)
EXTENDS Integers, Sequences, FiniteSets, TLC

VARIABLES
  pc,            \* position in main() / event_loop()
  exit_status,   \* RUNNING, or the status the process ended with
  exit_at,       \* the position at which the process ended ("" while running)
  nscanned,      \* options getopt_long() returned, while the scan lasts
  cmdcfgs,       \* command-line settings not yet applied
  operands,      \* argc - optind, from the scan to the end of the merge
  cfg,           \* the configuration store (get_config() / mod_config())
  severity,      \* Log severity level
  log,           \* set of messages emitted
  src_file, src_cli, sub_file, sub_cli,   \* history: requested settings
  ssl_lock,      \* ssl::setup_ssl_lock / teardown_ssl_lock calls
  ssl_ctxs,      \* server contexts built by ssl::create_ssl_context: the
                 \* certificate of each; a context's handle is its index
  cert_tree,     \* content of the lookup tree: handles inserted
  dns_calls,     \* getaddrinfo() calls made
  sigpipe,       \* disposition of SIGPIPE
  handler,       \* the ListenHandler
  uid, gid,      \* identity of the process
  idcalls,       \* identity-changing calls made, in order
  pid,           \* process id
  daemonized,    \* daemon() succeeded
  pid_file,      \* content of the PID file
  sockets,       \* open sockets, by descriptor
  fd,            \* create_evlistener's fd
  rp,            \* create_evlistener's rp: candidates left, 0 = NULL
  bad_close,     \* close() was called on a descriptor that was not open
  evlistener6, evlistener4,
  workers,       \* what was created after the privilege drop
  loop,          \* event_base_loop: "no", "running", "returned"
  conf_loaded,   \* load_config() calls made
  conf_stat      \* conf_exists(): what stat() returned (its local buf)

vars == << pc, exit_status, exit_at, nscanned, cmdcfgs, operands, cfg,
           severity, log, src_file, src_cli, sub_file, sub_cli, ssl_lock,
           ssl_ctxs, cert_tree, dns_calls, sigpipe, handler, uid, gid,
           idcalls, pid, daemonized, pid_file, sockets, fd, rp, bad_close,
           evlistener6, evlistener4, workers, loop, conf_loaded, conf_stat >>

\* groups for UNCHANGED
v_scan   == << nscanned, cmdcfgs, operands >>
v_hist   == << src_file, src_cli, sub_file, sub_cli, conf_loaded, conf_stat >>
v_tls    == << ssl_ctxs, cert_tree >>
v_ident  == << uid, gid, idcalls >>
v_proc   == << pid, daemonized, pid_file >>
v_sock   == << sockets, fd, rp, bad_close >>
v_listen == << evlistener6, evlistener4 >>
v_loop   == << workers, loop >>

---------------------------------------------------------------------------
(* Bounds *)

\* options on the command line
MaxArgs == 2
\* settings in the config file
MaxFileEntries == 1
\* addresses getaddrinfo() returns for the frontend host
MaxCand == 2

---------------------------------------------------------------------------
(* Program constants *)

EXIT_SUCCESS == 0
EXIT_FAILURE == 1
\* the process is still running
RUNNING == 0 - 1
\* status of a process killed by abort()
ABORTED == 134
\* libevent's "no limit" (EV_SSIZE_MAX of a 32-bit ssize_t)
EV_RATE_LIMIT_MAX == 2147483647
\* <sys/stat.h> file type bits (octal 0100000 and 0120000)
S_IFREG == 32768
S_IFLNK == 40960

NULL == "null"

---------------------------------------------------------------------------
(* The configuration store *)

\* fill_default_config()
fill_default_config ==
  [ verbose |-> FALSE, daemon |-> FALSE,
    host |-> "0.0.0.0", port |-> 3000,
    private_key_file |-> NULL, cert_file |-> NULL,
    upstream_no_tls |-> FALSE, downstream_no_tls |-> FALSE,
    downstream_host |-> "127.0.0.1", downstream_port |-> 80,
    downstream_hostport |-> NULL,
    downstream_addr |-> NULL, downstream_addrlen |-> 0,
    num_worker |-> 1,
    conf_path |-> "/etc/nghttpx/nghttpx.conf",
    syslog |-> FALSE, use_syslog |-> FALSE,
    backlog |-> 256,
    http2_proxy |-> FALSE, http2_bridge |-> FALSE,
    client_proxy |-> FALSE, client |-> FALSE, client_mode |-> FALSE,
    downstream_proto |-> "PROTO_0",
    pid_file |-> NULL, uid |-> 0, gid |-> 0,
    backend_ipv4 |-> FALSE, backend_ipv6 |-> FALSE,
    cert_tree |-> NULL, default_ssl_ctx |-> 0,
    subcerts |-> << >>,
    downstream_http_proxy_host |-> NULL,
    downstream_http_proxy_addr |-> NULL,
    downstream_http_proxy_addrlen |-> 0,
    rate_limit_cfg |-> << >>,
    read_rate |-> 1024 * 1024, read_burst |-> 4 * 1024 * 1024,
    write_rate |-> 0, write_burst |-> 0,
    npn_list |-> NULL ]

\* The flag options: parse_config stores whether the value is "yes".
FlagField ==
  [ o \in { "daemon", "http2-proxy", "http2-bridge", "client-proxy", "client",
            "frontend-no-tls", "backend-no-tls", "backend-ipv4",
            "backend-ipv6", "syslog" } |->
      CASE o = "daemon"          -> "daemon"
        [] o = "http2-proxy"     -> "http2_proxy"
        [] o = "http2-bridge"    -> "http2_bridge"
        [] o = "client-proxy"    -> "client_proxy"
        [] o = "client"          -> "client"
        [] o = "frontend-no-tls" -> "upstream_no_tls"
        [] o = "backend-no-tls"  -> "downstream_no_tls"
        [] o = "backend-ipv4"    -> "backend_ipv4"
        [] o = "backend-ipv6"    -> "backend_ipv6"
        [] o = "syslog"          -> "syslog" ]

\* The options whose value is a path or a name, stored as given.
StringField ==
  [ o \in { "pid-file", "private-key-file", "certificate-file",
            "backend-http-proxy-uri" } |->
      CASE o = "pid-file"               -> "pid_file"
        [] o = "private-key-file"       -> "private_key_file"
        [] o = "certificate-file"       -> "cert_file"
        [] o = "backend-http-proxy-uri" -> "downstream_http_proxy_host" ]

\* The options whose value is a non-negative number.
NumberField ==
  [ o \in { "workers", "backlog", "read-rate", "read-burst", "write-rate",
            "write-burst" } |->
      CASE o = "workers"     -> "num_worker"
        [] o = "backlog"     -> "backlog"
        [] o = "read-rate"   -> "read_rate"
        [] o = "read-burst"  -> "read_burst"
        [] o = "write-rate"  -> "write_rate"
        [] o = "write-burst" -> "write_burst" ]

\* strtol on the decimal strings the model uses; -1 when not a number
StrToNum(s) ==
  CASE s = "0" -> 0 [] s = "1" -> 1 [] s = "2" -> 2 [] s = "3" -> 3
    [] s = "1000" -> 1000 [] s = "2000" -> 2000
    [] OTHER -> 0 - 1

\* getpwnam(): the uid and gid of a user name; -1 when unknown
Passwd(name) ==
  CASE name = "root"   -> [ uid |-> 0, gid |-> 0 ]
    [] name = "nobody" -> [ uid |-> 65534, gid |-> 65533 ]
    [] OTHER -> [ uid |-> 0 - 1, gid |-> 0 - 1 ]

LogLevels == { "INFO", "WARNING", "ERROR", "FATAL" }

\* parse_config(opt, optarg) == -1
ParseFails(opt, optarg) ==
  \/ opt \in DOMAIN NumberField /\ StrToNum(optarg) < 0
  \/ opt = "user" /\ Passwd(optarg).uid < 0
  \/ opt = "log-level" /\ optarg \notin LogLevels
  \/ opt \notin (DOMAIN FlagField \cup DOMAIN StringField \cup
                 DOMAIN NumberField \cup { "user", "subcert", "log-level" })

\* parse_config(opt, optarg): the store after the setting is applied.
parse_config(c, opt, optarg) ==
  IF ParseFails(opt, optarg) THEN c
  ELSE IF opt \in DOMAIN FlagField
    THEN [ c EXCEPT ![FlagField[opt]] = (optarg = "yes") ]
  ELSE IF opt \in DOMAIN StringField
    THEN [ c EXCEPT ![StringField[opt]] = optarg ]
  ELSE IF opt \in DOMAIN NumberField
    THEN [ c EXCEPT ![NumberField[opt]] = StrToNum(optarg) ]
  ELSE IF opt = "user"
    THEN [ c EXCEPT !.uid = Passwd(optarg).uid, !.gid = Passwd(optarg).gid ]
  ELSE IF opt = "subcert"
    THEN [ c EXCEPT !.subcerts = Append(@, optarg) ]
  ELSE c   \* log-level: kept in the logger, not in the store

\* the severity level after parse_config(opt, optarg)
parse_severity(sev, opt, optarg) ==
  IF opt = "log-level" /\ optarg \in LogLevels THEN optarg ELSE sev

\* load_config(): parse_config on every line of the file, in order
RECURSIVE load_config(_, _)
load_config(c, entries) ==
  IF entries = << >> THEN c
  ELSE load_config(parse_config(c, Head(entries)[1], Head(entries)[2]),
                   Tail(entries))

---------------------------------------------------------------------------
(* Inputs *)

\* what getopt_long() can hand to the switch as a setting (opt, optarg)
CmdOptions ==
  { << o, "yes" >> : o \in DOMAIN FlagField } \cup
  { << "pid-file", "/run/nghttpx.pid" >>,
    << "user", "nobody" >>,
    << "workers", "2" >>, << "workers", "x" >>,
    << "subcert", "sub.key:sub.crt" >>,
    << "backend-http-proxy-uri", "proxy.example" >>,
    << "log-level", "INFO" >> }

\* the lines a config file can hold
FileEntries ==
  { << "private-key-file", "file.key" >>,
    << "subcert", "fsub.key:fsub.crt" >> }

\* the single-valued options, and NoVal for "not given"
SettingOpts ==
  DOMAIN FlagField \cup DOMAIN StringField \cup DOMAIN NumberField
    \cup { "user", "log-level" }
NoVal == ""

SeqsUpTo(S, n) == UNION { [ 1..k -> S ] : k \in 0..n }

\* the last value each option is given in a sequence of settings
RECURSIVE LastGiven(_, _)
LastGiven(acc, entries) ==
  IF entries = << >> THEN acc
  ELSE LastGiven(IF Head(entries)[1] \in SettingOpts
                   THEN [ acc EXCEPT ![Head(entries)[1]] = Head(entries)[2] ]
                   ELSE acc,
                 Tail(entries))

\* the subcert values of a sequence of settings, in order
RECURSIVE SubcertsOf(_)
SubcertsOf(entries) ==
  IF entries = << >> THEN << >>
  ELSE (IF Head(entries)[1] = "subcert" THEN << Head(entries)[2] >> ELSE << >>)
         \o SubcertsOf(Tail(entries))

\* st_mode file types stat() can report: regular file, directory, character
\* device, block device, FIFO, socket (stat() follows symbolic links)
StatModes == { 32768, 16384, 8192, 24576, 4096, 49152 }

RECURSIVE BitAnd(_, _)
BitAnd(a, b) ==
  IF a = 0 \/ b = 0 THEN 0
  ELSE (IF a % 2 = 1 /\ b % 2 = 1 THEN 1 ELSE 0) + 2 * BitAnd(a \div 2, b \div 2)

BitOr(a, b) == a + b - BitAnd(a, b)

\* conf_exists(path), given what stat() returned (rv) and st_mode
conf_exists(rv, st_mode) ==
  rv = 0 /\ BitAnd(st_mode, BitOr(S_IFREG, S_IFLNK)) # 0

\* variant: every record is written, whatever the severity level
LOG_ENABLED_any(level) == TRUE
LOG_ENABLED(level) ==
  LET rank == [ l \in LogLevels |->
                  CASE l = "INFO" -> 0 [] l = "WARNING" -> 1
                    [] l = "ERROR" -> 2 [] l = "FATAL" -> 3 ]
  IN  rank[level] >= rank[severity]

\* LOG(level) << msg
LOG(level, msg) == IF LOG_ENABLED(level) THEN log \cup { msg } ELSE log

---------------------------------------------------------------------------
(* Initial state: main() entered, create_config() and fill_default_config() *)
(* done, Log::set_severity_level(WARNING).                                  *)

NoSock == [ open |-> FALSE, family |-> "", reuseaddr |-> FALSE,
            nonblock |-> FALSE, v6only |-> FALSE, bound |-> FALSE ]
NoListener == [ st |-> "null", fd |-> 0 - 1, backlog |-> 0, errorcb |-> FALSE ]
NoHandler == [ made |-> FALSE, sv_ssl_ctx |-> 0, cl_ssl_ctx |-> FALSE ]
FdPool == { 3, 4 }
NoStat == [ rv |-> 0 - 1, st_mode |-> 0 ]

Init ==
  /\ pc = "getopt"
  /\ exit_status = RUNNING
  /\ exit_at = ""
  /\ nscanned = 0
  /\ cmdcfgs = << >>
  /\ operands = 0
  /\ cfg = fill_default_config
  /\ severity = "WARNING"
  /\ log = {}
  /\ src_file = [ o \in SettingOpts |-> NoVal ]
  /\ src_cli = [ o \in SettingOpts |-> NoVal ]
  /\ sub_file = << >>
  /\ sub_cli = << >>
  /\ conf_loaded = 0
  /\ conf_stat = NoStat
  /\ ssl_lock = [ setup |-> 0, teardown |-> 0 ]
  /\ ssl_ctxs = << >>
  /\ cert_tree = {}
  /\ dns_calls = 0
  /\ sigpipe = "SIG_DFL"
  /\ handler = NoHandler
  /\ uid \in { 0, 1000 }
  /\ gid = uid
  /\ idcalls = << >>
  /\ pid = 4711
  /\ daemonized = FALSE
  /\ pid_file = << "absent" >>
  /\ sockets = [ f \in FdPool |-> NoSock ]
  /\ fd = 0 - 1
  /\ rp = 0
  /\ bad_close = FALSE
  /\ evlistener6 = NoListener
  /\ evlistener4 = NoListener
  /\ workers = [ threads |-> 0, http2_session |-> FALSE ]
  /\ loop = "no"

---------------------------------------------------------------------------
(* Control *)

\* exit(status), or abort(): the process ends here
\* variant: every exit reports success
ExitZero(status) ==
  /\ pc' = "exit"
  /\ exit_status' = EXIT_SUCCESS
  /\ exit_at' = pc
Exit(status) ==
  /\ pc' = "exit"
  /\ exit_status' = status
  /\ exit_at' = pc

Goto(p) ==
  /\ pc' = p
  /\ UNCHANGED << exit_status, exit_at >>

---------------------------------------------------------------------------
(* main(): the option scan *)

\* getopt_long() returns a setting: it is pushed on cmdcfgs
main_getopt_setting ==
  /\ pc = "getopt"
  /\ nscanned < MaxArgs
  /\ \E o \in CmdOptions :
       /\ cmdcfgs' = Append(cmdcfgs, o)
       /\ IF o[1] = "subcert"
            THEN sub_cli' = Append(sub_cli, o[2]) /\ UNCHANGED src_cli
            ELSE src_cli' = [ src_cli EXCEPT ![o[1]] = o[2] ]
                 /\ UNCHANGED sub_cli
  /\ nscanned' = nscanned + 1
  /\ Goto("getopt")
  /\ UNCHANGED << operands, cfg, severity, log, src_file, sub_file,
                  conf_loaded, conf_stat, ssl_lock, v_tls, dns_calls, sigpipe, handler,
                  v_ident, v_proc, v_sock, v_listen, v_loop >>

\* --conf: the path is stored at once, not pushed
main_getopt_conf ==
  /\ pc = "getopt"
  /\ nscanned < MaxArgs
  /\ cfg' = [ cfg EXCEPT !.conf_path = "/tmp/alt.conf" ]
  /\ nscanned' = nscanned + 1
  /\ Goto("getopt")
  /\ UNCHANGED << cmdcfgs, operands, severity, log, v_hist, ssl_lock, v_tls,
                  dns_calls, sigpipe, handler, v_ident, v_proc, v_sock,
                  v_listen, v_loop >>

\* -h / --help: print_help, exit(EXIT_SUCCESS)
main_getopt_help ==
  /\ pc = "getopt"
  /\ nscanned < MaxArgs
  /\ Exit(EXIT_SUCCESS)
  /\ UNCHANGED << v_scan, cfg, severity, log, v_hist, ssl_lock, v_tls,
                  dns_calls, sigpipe, handler, v_ident, v_proc, v_sock,
                  v_listen, v_loop >>

\* -v / --version: print_version, exit(EXIT_SUCCESS)
main_getopt_version ==
  /\ pc = "getopt"
  /\ nscanned < MaxArgs
  /\ Exit(EXIT_SUCCESS)
  /\ UNCHANGED << v_scan, cfg, severity, log, v_hist, ssl_lock, v_tls,
                  dns_calls, sigpipe, handler, v_ident, v_proc, v_sock,
                  v_listen, v_loop >>

\* '?': an unknown option, exit(EXIT_FAILURE)
main_getopt_unknown ==
  /\ pc = "getopt"
  /\ nscanned < MaxArgs
  /\ Exit(EXIT_FAILURE)
  /\ UNCHANGED << v_scan, cfg, severity, log, v_hist, ssl_lock, v_tls,
                  dns_calls, sigpipe, handler, v_ident, v_proc, v_sock,
                  v_listen, v_loop >>

\* getopt_long() returns -1: the scan is over
main_getopt_end ==
  /\ pc = "getopt"
  /\ nscanned' = 0
  /\ Goto("ssl_init")
  /\ UNCHANGED << cmdcfgs, operands, cfg, severity, log, v_hist, ssl_lock,
                  v_tls, dns_calls, sigpipe, handler, v_ident, v_proc,
                  v_sock, v_listen, v_loop >>

\* OpenSSL initialisation and ssl::setup_ssl_lock()
main_ssl_init ==
  /\ pc = "ssl_init"
  /\ ssl_lock' = [ ssl_lock EXCEPT !.setup = @ + 1 ]
  /\ Goto("conf")
  /\ UNCHANGED << v_scan, cfg, severity, log, v_hist, v_tls, dns_calls,
                  sigpipe, handler, v_ident, v_proc, v_sock, v_listen,
                  v_loop >>

---------------------------------------------------------------------------
(* main(): the configuration merge *)

\* conf_exists(): stat(conf_path)
main_conf_stat ==
  /\ pc = "conf"
  /\ \/ conf_stat' = [ rv |-> 0 - 1, st_mode |-> 0 ]
     \/ \E m \in StatModes : conf_stat' = [ rv |-> 0, st_mode |-> m ]
  /\ Goto("conf_exists")
  /\ UNCHANGED << v_scan, cfg, severity, log, src_file, src_cli, sub_file,
                  sub_cli, conf_loaded, ssl_lock, v_tls, dns_calls, sigpipe,
                  handler, v_ident, v_proc, v_sock, v_listen, v_loop >>

\* conf_exists() is false: the file is not loaded
main_conf_skip ==
  /\ pc = "conf_exists"
  /\ ~ conf_exists(conf_stat.rv, conf_stat.st_mode)
  /\ conf_stat' = NoStat
  /\ Goto("positional")
  /\ UNCHANGED << v_scan, cfg, severity, log, src_file, src_cli, sub_file,
                  sub_cli, conf_loaded, ssl_lock, v_tls, dns_calls, sigpipe,
                  handler, v_ident, v_proc, v_sock, v_listen, v_loop >>

\* conf_exists() is true and load_config() succeeds
main_conf_load ==
  /\ pc = "conf_exists"
  /\ conf_exists(conf_stat.rv, conf_stat.st_mode)
  /\ \E entries \in SeqsUpTo(FileEntries, MaxFileEntries) :
       /\ cfg' = load_config(cfg, entries)
       /\ src_file' = LastGiven(src_file, entries)
       /\ sub_file' = sub_file \o SubcertsOf(entries)
  /\ conf_loaded' = conf_loaded + 1
  /\ conf_stat' = NoStat
  /\ Goto("positional")
  /\ UNCHANGED << v_scan, severity, log, src_cli, sub_cli, ssl_lock, v_tls,
                  dns_calls, sigpipe, handler, v_ident, v_proc, v_sock,
                  v_listen, v_loop >>

\* conf_exists() is true and load_config() returns -1
main_conf_fail ==
  /\ pc = "conf_exists"
  /\ conf_exists(conf_stat.rv, conf_stat.st_mode)
  /\ conf_loaded' = conf_loaded + 1
  /\ conf_stat' = NoStat
  /\ log' = LOG("FATAL", "Failed to load configuration")
  /\ Exit(EXIT_FAILURE)
  /\ UNCHANGED << v_scan, cfg, severity, src_file, src_cli, sub_file,
                  sub_cli, ssl_lock, v_tls, dns_calls, sigpipe, handler,
                  v_ident, v_proc, v_sock, v_listen, v_loop >>

\* argc - optind operands remain: with two or more, the first two are
\* pushed last as the private key and the certificate
\* variant: one positional argument is enough
TakesPositionalOne(n) == n >= 1
\* the test on the arguments left after the options: argc - optind >= 2
TakesPositional(n) == n >= 2

main_positional ==
  /\ pc = "positional"
  /\ \E n \in { 0, 1, 2 } :
       /\ operands' = n
       /\ IF TakesPositional(n)
            THEN /\ cmdcfgs' = cmdcfgs \o
                                 << << "private-key-file", "server.key" >>,
                                    << "certificate-file", "server.crt" >> >>
                 /\ src_cli' = [ src_cli EXCEPT
                                   ![ "private-key-file" ] = "server.key",
                                   ![ "certificate-file" ] = "server.crt" ]
            ELSE UNCHANGED << cmdcfgs, src_cli >>
  /\ Goto("parse")
  /\ UNCHANGED << nscanned, cfg, severity, log, src_file, sub_file,
                  sub_cli, conf_loaded, conf_stat, ssl_lock, v_tls, dns_calls,
                  sigpipe, handler, v_ident, v_proc, v_sock, v_listen,
                  v_loop >>

\* variant: the loop reads the last entry instead of entry i
NextCmdcfgLast(cs) == cs[Len(cs)]

\* the next command-line setting to apply
NextCmdcfg(cs) == Head(cs)
RestCmdcfgs(cs) == Tail(cs)

\* one iteration of the loop over cmdcfgs
main_parse_cmdcfg ==
  /\ pc = "parse"
  /\ cmdcfgs # << >>
  /\ LET e == NextCmdcfg(cmdcfgs) IN
       IF ParseFails(e[1], e[2])
         THEN /\ log' = LOG("FATAL", "Failed to parse command-line argument.")
              /\ Exit(EXIT_FAILURE)
              /\ UNCHANGED << cfg, severity, cmdcfgs >>
         ELSE /\ cfg' = parse_config(cfg, e[1], e[2])
              /\ severity' = parse_severity(severity, e[1], e[2])
              /\ cmdcfgs' = RestCmdcfgs(cmdcfgs)
              /\ Goto("parse")
              /\ UNCHANGED log
  /\ UNCHANGED << nscanned, operands, v_hist, ssl_lock, v_tls, dns_calls,
                  sigpipe, handler, v_ident, v_proc, v_sock, v_listen,
                  v_loop >>

\* the loop is over; the default NPN list is installed when none was given
main_npn_list ==
  /\ pc = "parse"
  /\ cmdcfgs = << >>
  /\ cfg' = IF cfg.npn_list = NULL
              THEN [ cfg EXCEPT !.npn_list = "DEFAULT_NPN_LIST" ]
              ELSE cfg
  /\ operands' = 0
  /\ Goto("cert_tree")
  /\ UNCHANGED << nscanned, cmdcfgs, severity, log, v_hist, ssl_lock, v_tls, dns_calls,
                  sigpipe, handler, v_ident, v_proc, v_sock, v_listen,
                  v_loop >>

---------------------------------------------------------------------------
(* main(): the TLS server contexts *)

\* the certificate file of a --subcert value "<key>:<cert>"
SubcertCert(keycert) ==
  CASE keycert = "sub.key:sub.crt"   -> "sub.crt"
    [] keycert = "fsub.key:fsub.crt" -> "fsub.crt"
    [] OTHER -> keycert

\* ssl::cert_lookup_tree_new() when subcerts were given
main_cert_tree ==
  /\ pc = "cert_tree"
  /\ cfg' = IF cfg.subcerts # << >>
              THEN [ cfg EXCEPT !.cert_tree = "tree" ]
              ELSE cfg
  /\ Goto("subcerts")
  /\ UNCHANGED << v_scan, severity, log, v_hist, ssl_lock, v_tls, dns_calls,
                  sigpipe, handler, v_ident, v_proc, v_sock, v_listen,
                  v_loop >>

\* one iteration of the loop over subcerts: the context is built and
\* inserted in the tree
main_subcert_add ==
  /\ pc = "subcerts"
  /\ Len(ssl_ctxs) < Len(cfg.subcerts)
  /\ LET keycert == cfg.subcerts[Len(ssl_ctxs) + 1]
         ssl_ctx == Len(ssl_ctxs) + 1
     IN  /\ ssl_ctxs' = Append(ssl_ctxs, SubcertCert(keycert))
         /\ cert_tree' = cert_tree \cup { ssl_ctx }
  /\ Goto("subcerts")
  /\ UNCHANGED << v_scan, cfg, severity, log, v_hist, ssl_lock, dns_calls,
                  sigpipe, handler, v_ident, v_proc, v_sock, v_listen,
                  v_loop >>

\* ... or cert_lookup_tree_add_cert_from_file() returns -1
main_subcert_fail ==
  /\ pc = "subcerts"
  /\ Len(ssl_ctxs) < Len(cfg.subcerts)
  /\ ssl_ctxs' = Append(ssl_ctxs, SubcertCert(cfg.subcerts[Len(ssl_ctxs) + 1]))
  /\ log' = LOG("FATAL", "Failed to add sub certificate.")
  /\ Exit(EXIT_FAILURE)
  /\ UNCHANGED << v_scan, cfg, severity, v_hist, ssl_lock, cert_tree,
                  dns_calls, sigpipe, handler, v_ident, v_proc, v_sock,
                  v_listen, v_loop >>

\* variant: the primary context is never put in the tree
TreeInsertSkipped(tree, t, ssl_ctx) == tree

\* the primary context is inserted when the tree exists
TreeInsert(tree, t, ssl_ctx) ==
  IF t # NULL THEN tree \cup { ssl_ctx } ELSE tree

\* the primary pair is configured
HasPrimary(c) == c.cert_file # NULL /\ c.private_key_file # NULL

\* after the loop: the primary context is built when key and certificate
\* are both configured, and inserted when the tree exists
main_default_ssl_ctx ==
  /\ pc = "subcerts"
  /\ Len(ssl_ctxs) >= Len(cfg.subcerts)
  /\ IF HasPrimary(cfg)
       THEN /\ ssl_ctxs' = Append(ssl_ctxs, cfg.cert_file)
            /\ cfg' = [ cfg EXCEPT !.default_ssl_ctx = Len(ssl_ctxs) + 1 ]
            /\ cert_tree' = TreeInsert(cert_tree, cfg.cert_tree,
                                       Len(ssl_ctxs) + 1)
       ELSE UNCHANGED << ssl_ctxs, cfg, cert_tree >>
  /\ Goto("check_family")
  /\ UNCHANGED << v_scan, severity, log, v_hist, ssl_lock, dns_calls,
                  sigpipe, handler, v_ident, v_proc, v_sock, v_listen,
                  v_loop >>

\* ... or inserting the primary context returns -1
main_default_ssl_ctx_fail ==
  /\ pc = "subcerts"
  /\ Len(ssl_ctxs) >= Len(cfg.subcerts)
  /\ HasPrimary(cfg)
  /\ cfg.cert_tree # NULL
  /\ ssl_ctxs' = Append(ssl_ctxs, cfg.cert_file)
  /\ cfg' = [ cfg EXCEPT !.default_ssl_ctx = Len(ssl_ctxs) + 1 ]
  /\ log' = LOG("FATAL", "Failed to parse command-line argument.")
  /\ Exit(EXIT_FAILURE)
  /\ UNCHANGED << v_scan, severity, v_hist, ssl_lock, cert_tree, dns_calls,
                  sigpipe, handler, v_ident, v_proc, v_sock, v_listen,
                  v_loop >>

---------------------------------------------------------------------------
(* main(): cross-field validation *)

B2N(b) == IF b THEN 1 ELSE 0

\* variant: the client flag is left out of the sum
ModeFlagCountNoClient(c) ==
  B2N(c.http2_proxy) + B2N(c.http2_bridge) + B2N(c.client_proxy)

\* http2_proxy + http2_bridge + client_proxy + client
ModeFlagCount(c) ==
  B2N(c.http2_proxy) + B2N(c.http2_bridge) + B2N(c.client_proxy)
    + B2N(c.client)

\* --backend-ipv4 and --backend-ipv6 together are refused
main_check_backend_family ==
  /\ pc = "check_family"
  /\ IF cfg.backend_ipv4 /\ cfg.backend_ipv6
       THEN /\ log' = LOG("FATAL", "--backend-ipv4 and --backend-ipv6")
            /\ Exit(EXIT_FAILURE)
       ELSE /\ Goto("check_mode")
            /\ UNCHANGED log
  /\ UNCHANGED << v_scan, cfg, severity, v_hist, ssl_lock, v_tls, dns_calls,
                  sigpipe, handler, v_ident, v_proc, v_sock, v_listen,
                  v_loop >>

\* more than one mode flag is refused
main_check_mode ==
  /\ pc = "check_mode"
  /\ IF ModeFlagCount(cfg) > 1
       THEN /\ log' = LOG("FATAL", "modes cannot be used at the same time")
            /\ Exit(EXIT_FAILURE)
       ELSE /\ Goto("set_mode")
            /\ UNCHANGED log
  /\ UNCHANGED << v_scan, cfg, severity, v_hist, ssl_lock, v_tls, dns_calls,
                  sigpipe, handler, v_ident, v_proc, v_sock, v_listen,
                  v_loop >>

\* client_mode and downstream_proto follow the mode flags
SetMode(c) ==
  LET c1 == IF c.client \/ c.client_proxy
              THEN [ c EXCEPT !.client_mode = TRUE ] ELSE c
  IN  [ c1 EXCEPT !.downstream_proto =
          IF c1.client_mode \/ c1.http2_bridge THEN "PROTO_SPDY"
                                                ELSE "PROTO_HTTP" ]

main_set_mode ==
  /\ pc = "set_mode"
  /\ cfg' = SetMode(cfg)
  /\ Goto("check_tls")
  /\ UNCHANGED << v_scan, severity, log, v_hist, ssl_lock, v_tls, dns_calls,
                  sigpipe, handler, v_ident, v_proc, v_sock, v_listen,
                  v_loop >>

\* variant: refused only when key and certificate are both missing
TooFewArgumentsBoth(c) ==
  /\ ~ c.client_mode /\ ~ c.upstream_no_tls
  /\ (c.private_key_file = NULL /\ c.cert_file = NULL)

\* key and certificate are needed and one of them is missing
TooFewArguments(c) ==
  /\ ~ c.client_mode /\ ~ c.upstream_no_tls
  /\ (c.private_key_file = NULL \/ c.cert_file = NULL)

main_check_tls ==
  /\ pc = "check_tls"
  /\ IF TooFewArguments(cfg)
       THEN /\ log' = LOG("FATAL", "Too few arguments")
            /\ Exit(EXIT_FAILURE)
       ELSE /\ Goto("resolve_backend")
            /\ UNCHANGED log
  /\ UNCHANGED << v_scan, cfg, severity, v_hist, ssl_lock, v_tls, dns_calls,
                  sigpipe, handler, v_ident, v_proc, v_sock, v_listen,
                  v_loop >>

---------------------------------------------------------------------------
(* main(): backend addresses, syslog, rate limit, SIGPIPE *)

\* the address families getaddrinfo() can answer with under hints.ai_family
ResolvedFamilies(family) ==
  IF family = "AF_UNSPEC" THEN { "AF_INET", "AF_INET6" } ELSE { family }

\* sizeof(sockaddr_in) and sizeof(sockaddr_in6)
AddrLen(family) == IF family = "AF_INET" THEN 16 ELSE 28

\* variant: the two flags are ignored and any family is asked for
BackendFamilyUnspec(c) == "AF_UNSPEC"
\* the family main() asks for when it resolves the backend
BackendFamily(c) ==
  IF c.backend_ipv4 THEN "AF_INET"
  ELSE IF c.backend_ipv6 THEN "AF_INET6" ELSE "AF_UNSPEC"

\* resolve_hostname() returns 0 for the backend
main_resolve_backend ==
  /\ pc = "resolve_backend"
  /\ \E a \in ResolvedFamilies(BackendFamily(cfg)) :
       cfg' = [ cfg EXCEPT !.downstream_hostport = "127.0.0.1:80",
                           !.downstream_addr = a,
                           !.downstream_addrlen = AddrLen(a) ]
  /\ dns_calls' = dns_calls + 1
  /\ log' = LOG("INFO", "Resolving backend address")
  /\ Goto("resolve_proxy")
  /\ UNCHANGED << v_scan, severity, v_hist, ssl_lock, v_tls, sigpipe,
                  handler, v_ident, v_proc, v_sock, v_listen, v_loop >>

\* resolve_hostname() returns -1 (getaddrinfo or getnameinfo failed)
main_resolve_backend_fail ==
  /\ pc = "resolve_backend"
  /\ cfg' = [ cfg EXCEPT !.downstream_hostport = "127.0.0.1:80" ]
  /\ dns_calls' = dns_calls + 1
  /\ log' = LOG("FATAL", "Unable to resolve address")
  /\ Exit(EXIT_FAILURE)
  /\ UNCHANGED << v_scan, severity, v_hist, ssl_lock, v_tls, sigpipe,
                  handler, v_ident, v_proc, v_sock, v_listen, v_loop >>

\* the backend HTTP proxy, when configured, is resolved for any family
main_resolve_proxy ==
  /\ pc = "resolve_proxy"
  /\ IF cfg.downstream_http_proxy_host # NULL
       THEN /\ \E a \in ResolvedFamilies("AF_UNSPEC") :
                 cfg' = [ cfg EXCEPT !.downstream_http_proxy_addr = a,
                                     !.downstream_http_proxy_addrlen =
                                        AddrLen(a) ]
            /\ dns_calls' = dns_calls + 1
            /\ log' = LOG("INFO", "Resolving backend http proxy address")
       ELSE UNCHANGED << cfg, dns_calls, log >>
  /\ Goto("syslog")
  /\ UNCHANGED << v_scan, severity, v_hist, ssl_lock, v_tls, sigpipe,
                  handler, v_ident, v_proc, v_sock, v_listen, v_loop >>

main_resolve_proxy_fail ==
  /\ pc = "resolve_proxy"
  /\ cfg.downstream_http_proxy_host # NULL
  /\ dns_calls' = dns_calls + 1
  /\ log' = LOG("FATAL", "Unable to resolve address")
  /\ Exit(EXIT_FAILURE)
  /\ UNCHANGED << v_scan, cfg, severity, v_hist, ssl_lock, v_tls, sigpipe,
                  handler, v_ident, v_proc, v_sock, v_listen, v_loop >>

\* openlog() when --syslog
main_syslog ==
  /\ pc = "syslog"
  /\ cfg' = IF cfg.syslog THEN [ cfg EXCEPT !.use_syslog = TRUE ] ELSE cfg
  /\ Goto("rate_limit")
  /\ UNCHANGED << v_scan, severity, log, v_hist, ssl_lock, v_tls, dns_calls,
                  sigpipe, handler, v_ident, v_proc, v_sock, v_listen,
                  v_loop >>

\* variant: 0 is handed on as it is
get_rate_limit_raw(rate_limit) == rate_limit

\* get_rate_limit(): 0 means no limit
get_rate_limit(rate_limit) ==
  IF rate_limit = 0 THEN EV_RATE_LIMIT_MAX ELSE rate_limit

\* variant: no descriptor is built
ev_token_bucket_cfg_none(c) == << >>
\* ev_token_bucket_cfg_new(read_rate, read_burst, write_rate, write_burst)
ev_token_bucket_cfg_new(c) ==
  << get_rate_limit(c.read_rate), get_rate_limit(c.read_burst),
     get_rate_limit(c.write_rate), get_rate_limit(c.write_burst) >>

main_rate_limit ==
  /\ pc = "rate_limit"
  /\ cfg' = [ cfg EXCEPT !.rate_limit_cfg = ev_token_bucket_cfg_new(cfg) ]
  /\ Goto("sigpipe")
  /\ UNCHANGED << v_scan, severity, log, v_hist, ssl_lock, v_tls, dns_calls,
                  sigpipe, handler, v_ident, v_proc, v_sock, v_listen,
                  v_loop >>

\* variant: the handler installed is the default one
SigpipeHandlerDefault == "SIG_DFL"
\* act.sa_handler = SIG_IGN
SigpipeHandler == "SIG_IGN"

\* sigaction(SIGPIPE, &act, 0), then event_loop() is called
main_sigpipe ==
  /\ pc = "sigpipe"
  /\ sigpipe' = SigpipeHandler
  /\ Goto("event_loop")
  /\ UNCHANGED << v_scan, cfg, severity, log, v_hist, ssl_lock, v_tls,
                  dns_calls, handler, v_ident, v_proc, v_sock, v_listen,
                  v_loop >>

---------------------------------------------------------------------------
(* event_loop(): handler, daemon, PID file *)

\* variant: the handler always gets the primary context
SvSslCtxAlways(c) == c.default_ssl_ctx
\* the server context handed to the ListenHandler (0 is nullptr)
SvSslCtx(c) ==
  IF c.client_mode THEN 0
  ELSE IF c.upstream_no_tls THEN 0 ELSE c.default_ssl_ctx

\* whether ssl::create_ssl_client_context() is called for the handler
ClSslCtx(c) ==
  IF c.client_mode THEN ~ c.downstream_no_tls
  ELSE c.http2_bridge /\ ~ c.downstream_no_tls

\* event_base_new(), the two contexts, new ListenHandler
event_loop_handler ==
  /\ pc = "event_loop"
  /\ handler' = [ made |-> TRUE, sv_ssl_ctx |-> SvSslCtx(cfg),
                  cl_ssl_ctx |-> ClSslCtx(cfg) ]
  /\ Goto("daemon")
  /\ UNCHANGED << v_scan, cfg, severity, log, v_hist, ssl_lock, v_tls,
                  dns_calls, sigpipe, v_ident, v_proc, v_sock, v_listen,
                  v_loop >>

\* event_base_new() returns NULL
event_loop_evbase_fail ==
  /\ pc = "event_loop"
  /\ log' = LOG("FATAL", "event_base_new() failed")
  /\ Exit(EXIT_FAILURE)
  /\ UNCHANGED << v_scan, cfg, severity, v_hist, ssl_lock, v_tls, dns_calls,
                  sigpipe, handler, v_ident, v_proc, v_sock, v_listen,
                  v_loop >>

\* the process ids the daemon child can get
DaemonPids == { 7, 120 }

\* daemon(0, 0) when requested: the child carries on with its own pid
event_loop_daemon ==
  /\ pc = "daemon"
  /\ IF cfg.daemon
       THEN /\ pid' \in DaemonPids
            /\ daemonized' = TRUE
       ELSE UNCHANGED << pid, daemonized >>
  /\ Goto("save_pid")
  /\ UNCHANGED << v_scan, cfg, severity, log, v_hist, ssl_lock, v_tls,
                  dns_calls, sigpipe, handler, v_ident, pid_file, v_sock,
                  v_listen, v_loop >>

\* daemon(0, 0) returns -1
event_loop_daemon_fail ==
  /\ pc = "daemon"
  /\ cfg.daemon
  /\ log' = LOG("FATAL", "Failed to daemonize")
  /\ Exit(EXIT_FAILURE)
  /\ UNCHANGED << v_scan, cfg, severity, v_hist, ssl_lock, v_tls, dns_calls,
                  sigpipe, handler, v_ident, v_proc, v_sock, v_listen,
                  v_loop >>

DigitChar(d) ==
  CASE d = 0 -> "0" [] d = 1 -> "1" [] d = 2 -> "2" [] d = 3 -> "3"
    [] d = 4 -> "4" [] d = 5 -> "5" [] d = 6 -> "6" [] d = 7 -> "7"
    [] d = 8 -> "8" [] d = 9 -> "9"

\* operator<<(int): the decimal digits of n >= 0, most significant first
RECURSIVE Decimal(_)
Decimal(n) ==
  IF n < 10 THEN << DigitChar(n) >>
  ELSE Append(Decimal(n \div 10), DigitChar(n % 10))

\* variant: the newline is forgotten
PidTextNoNewline(p) == Decimal(p)

\* what save_pid() streams into the file: out << getpid() << "\n"
PidText(p) == Decimal(p) \o << "\n" >>

\* variant: save_pid() is called whether or not a path is configured
PidFileAlways(c) == TRUE
\* the test of event_loop() around save_pid(): if(get_config()->pid_file)
PidFileConfigured(c) == c.pid_file # NULL

\* save_pid() when a pid file is configured
event_loop_save_pid ==
  /\ pc = "save_pid"
  /\ IF PidFileConfigured(cfg)
       THEN pid_file' = PidText(pid)
       ELSE UNCHANGED pid_file
  /\ Goto("listen6")
  /\ UNCHANGED << v_scan, cfg, severity, log, v_hist, ssl_lock, v_tls,
                  dns_calls, sigpipe, handler, v_ident, pid, daemonized,
                  v_sock, v_listen, v_loop >>

\* save_pid(): the stream is bad after close(); the file is missing or empty
save_pid_fail ==
  /\ pc = "save_pid"
  /\ PidFileConfigured(cfg)
  /\ pid_file' \in { pid_file, << >> }
  /\ log' = LOG("ERROR", "Could not save PID to file")
  /\ Exit(EXIT_FAILURE)
  /\ UNCHANGED << v_scan, cfg, severity, v_hist, ssl_lock, v_tls, dns_calls,
                  sigpipe, handler, v_ident, pid, daemonized, v_sock,
                  v_listen, v_loop >>

---------------------------------------------------------------------------
(* create_evlistener(handler, family) *)

\* the family of the call in progress, and where event_loop() goes on
CeFamily == IF pc \in { "listen6", "loop6", "after6" } THEN "AF_INET6"
            ELSE "AF_INET"
CeLoop == IF CeFamily = "AF_INET6" THEN "loop6" ELSE "loop4"
CeAfter == IF CeFamily = "AF_INET6" THEN "after6" ELSE "after4"
\* variant: event_loop() goes on without the check of the two listeners
CeReturnNoCheck ==
  IF CeFamily = "AF_INET6" THEN "listen4" ELSE "drop_privileges"
CeReturn == IF CeFamily = "AF_INET6" THEN "listen4" ELSE "check_listeners"

FamilyDigit(family) == IF family = "AF_INET" THEN "4" ELSE "6"

\* socket(): the lowest descriptor not in use
LowestFree(socks) ==
  CHOOSE f \in FdPool :
    /\ ~ socks[f].open
    /\ \A g \in FdPool : ~ socks[g].open => f <= g

\* variant: the descriptor is never closed
SockCloseNever(st, f) == st
\* close(fd) on the pair (sockets, bad_close)
SockClose(st, f) ==
  IF f \in FdPool /\ st.sockets[f].open
    THEN [ st EXCEPT !.sockets[f] = NoSock ]
    ELSE [ st EXCEPT !.bad_close = TRUE ]

\* variant: IPV6_V6ONLY is never asked for
TryCandidateNoV6only(family, failing, socks, bad) ==
  LET st0 == [ sockets |-> socks, bad_close |-> bad, fd |-> 0 - 1,
               bound |-> FALSE ]
  IN
  IF failing = "socket" THEN st0
  ELSE
    LET f  == LowestFree(socks)
        s1 == [ st0 EXCEPT !.fd = f,
                           !.sockets[f] = [ NoSock EXCEPT !.open = TRUE,
                                                          !.family = family ] ]
    IN
    IF failing = "reuseaddr" THEN SockClose(s1, f)
    ELSE
      LET s2 == [ s1 EXCEPT !.sockets[f].reuseaddr = TRUE,
                            !.sockets[f].nonblock = TRUE ]
      IN
      IF failing = "bind" THEN SockClose(s2, f)
      ELSE [ s2 EXCEPT !.sockets[f].bound = TRUE, !.bound = TRUE ]

\* the calls made on one candidate address, up to the one that fails
\* (failing \in "socket", "reuseaddr", "v6only", "bind") or to a successful
\* bind (failing = "none")
TryCandidate(family, failing, socks, bad) ==
  LET st0 == [ sockets |-> socks, bad_close |-> bad, fd |-> 0 - 1,
               bound |-> FALSE ]
  IN
  IF failing = "socket" THEN st0
  ELSE
    LET f  == LowestFree(socks)
        s1 == [ st0 EXCEPT !.fd = f,
                           !.sockets[f] = [ NoSock EXCEPT !.open = TRUE,
                                                          !.family = family ] ]
    IN
    IF failing = "reuseaddr" THEN SockClose(s1, f)
    ELSE
      LET s2 == [ s1 EXCEPT !.sockets[f].reuseaddr = TRUE,
                            !.sockets[f].nonblock = TRUE ]
      IN
      IF family = "AF_INET6" /\ failing = "v6only" THEN SockClose(s2, f)
      ELSE
        LET s3 == IF family = "AF_INET6"
                    THEN [ s2 EXCEPT !.sockets[f].v6only = TRUE ]
                    ELSE s2
        IN
        IF failing = "bind" THEN SockClose(s3, f)
        ELSE [ s3 EXCEPT !.sockets[f].bound = TRUE, !.bound = TRUE ]

\* the calls that can fail on a candidate of the family
FailingCalls(family) ==
  { "socket", "reuseaddr", "bind", "none" } \cup
    (IF family = "AF_INET6" THEN { "v6only" } ELSE {})

\* getaddrinfo() fails: the family has no listener
create_evlistener_unresolved ==
  /\ pc \in { "listen6", "listen4" }
  /\ dns_calls' = dns_calls + 1
  /\ log' = LOG("INFO", "Unable to get IPv" \o FamilyDigit(CeFamily)
                          \o " address")
  /\ Goto(CeReturn)
  /\ UNCHANGED << v_scan, cfg, severity, v_hist, ssl_lock, v_tls, sigpipe,
                  handler, v_ident, v_proc, v_sock, v_listen, v_loop >>

\* getaddrinfo() returns a list of candidates
create_evlistener_resolved ==
  /\ pc \in { "listen6", "listen4" }
  /\ dns_calls' = dns_calls + 1
  /\ rp' \in 1..MaxCand
  /\ fd' = 0 - 1
  /\ Goto(CeLoop)
  /\ UNCHANGED << v_scan, cfg, severity, log, v_hist, ssl_lock, v_tls,
                  sigpipe, handler, v_ident, v_proc, sockets, bad_close,
                  v_listen, v_loop >>

\* one iteration of the loop over the candidates
create_evlistener_candidate ==
  /\ pc \in { "loop6", "loop4" }
  /\ rp > 0
  /\ \E failing \in FailingCalls(CeFamily) :
       LET r == TryCandidate(CeFamily, failing, sockets, bad_close) IN
         /\ sockets' = r.sockets
         /\ bad_close' = r.bad_close
         /\ fd' = r.fd
         /\ rp' = IF r.bound THEN rp ELSE rp - 1
         /\ Goto(IF r.bound \/ rp = 1 THEN CeAfter ELSE CeLoop)
  /\ UNCHANGED << v_scan, cfg, severity, log, v_hist, ssl_lock, v_tls,
                  dns_calls, sigpipe, handler, v_ident, v_proc, v_listen,
                  v_loop >>

\* variant: evconnlistener_set_error_cb() is left out
NewListenerNoErrorcb(f, c) ==
  [ st |-> "listening", fd |-> f, backlog |-> c.backlog, errorcb |-> FALSE ]
\* evconnlistener_new() on the bound socket, and the error callback
NewListener(f, c) ==
  [ st |-> "listening", fd |-> f, backlog |-> c.backlog, errorcb |-> TRUE ]

\* a candidate was bound (rp != 0): the listener is created and returned
create_evlistener_listen ==
  /\ pc \in { "after6", "after4" }
  /\ rp # 0
  /\ log' = LOG("INFO", "Listening on")
  /\ IF CeFamily = "AF_INET6"
       THEN evlistener6' = NewListener(fd, cfg) /\ UNCHANGED evlistener4
       ELSE evlistener4' = NewListener(fd, cfg) /\ UNCHANGED evlistener6
  /\ fd' = 0 - 1
  /\ rp' = 0
  /\ Goto(CeReturn)
  /\ UNCHANGED << v_scan, cfg, severity, v_hist, ssl_lock, v_tls, dns_calls,
                  sigpipe, handler, v_ident, v_proc, sockets, bad_close,
                  v_loop >>

\* a candidate was bound but getnameinfo() fails: LOG(FATAL), DIE().
\* DIE() is assert(0): the process is aborted ...
create_evlistener_die ==
  /\ pc \in { "after6", "after4" }
  /\ rp # 0
  /\ log' = LOG("FATAL", "getnameinfo")
  /\ Exit(ABORTED)
  /\ UNCHANGED << v_scan, cfg, severity, v_hist, ssl_lock, v_tls, dns_calls,
                  sigpipe, handler, v_ident, v_proc, v_sock, v_listen,
                  v_loop >>

\* ... or, in a build without assertions, the function carries on
create_evlistener_die_ndebug ==
  /\ pc \in { "after6", "after4" }
  /\ rp # 0
  /\ log' = LOG("FATAL", "getnameinfo")
  /\ IF CeFamily = "AF_INET6"
       THEN evlistener6' = NewListener(fd, cfg) /\ UNCHANGED evlistener4
       ELSE evlistener4' = NewListener(fd, cfg) /\ UNCHANGED evlistener6
  /\ fd' = 0 - 1
  /\ rp' = 0
  /\ Goto(CeReturn)
  /\ UNCHANGED << v_scan, cfg, severity, v_hist, ssl_lock, v_tls, dns_calls,
                  sigpipe, handler, v_ident, v_proc, sockets, bad_close,
                  v_loop >>

\* no candidate was bound (rp == 0): the family has no listener
create_evlistener_absent ==
  /\ pc \in { "after6", "after4" }
  /\ rp = 0
  /\ log' = LOG("INFO", "Listening IPv" \o FamilyDigit(CeFamily)
                          \o " socket failed")
  /\ fd' = 0 - 1
  /\ Goto(CeReturn)
  /\ UNCHANGED << v_scan, cfg, severity, v_hist, ssl_lock, v_tls, dns_calls,
                  sigpipe, handler, v_ident, v_proc, sockets, rp, bad_close,
                  v_listen, v_loop >>

---------------------------------------------------------------------------
(* event_loop(): listeners check, privilege drop, workers, loop *)

\* both listeners are absent: fatal
event_loop_check_listeners ==
  /\ pc = "check_listeners"
  /\ IF evlistener6.st = "null" /\ evlistener4.st = "null"
       THEN /\ log' = LOG("FATAL", "Failed to listen on address")
            /\ Exit(EXIT_FAILURE)
       ELSE /\ Goto("drop_privileges")
            /\ UNCHANGED log
  /\ UNCHANGED << v_scan, cfg, severity, v_hist, ssl_lock, v_tls, dns_calls,
                  sigpipe, handler, v_ident, v_proc, v_sock, v_listen,
                  v_loop >>

\* variant: the test of getuid() is left out
ShouldDropAnyUser(u, c) == c.uid # 0

\* drop_privileges(): the guard of the drop
ShouldDrop(u, c) == u = 0 /\ c.uid # 0

\* drop_privileges(): nothing to drop
drop_privileges_skip ==
  /\ pc = "drop_privileges"
  /\ ~ ShouldDrop(uid, cfg)
  /\ Goto("workers")
  /\ UNCHANGED << v_scan, cfg, severity, log, v_hist, ssl_lock, v_tls,
                  dns_calls, sigpipe, handler, v_ident, v_proc, v_sock,
                  v_listen, v_loop >>

\* variant: the user is changed before the group
DropCallsUserFirst == << "setuid", "setgid", "setuid0" >>

\* the calls drop_privileges() makes when all three behave
DropCalls == << "setgid", "setuid", "setuid0" >>

\* drop_privileges(): setgid and setuid succeed, setuid(0) is refused
drop_privileges_done ==
  /\ pc = "drop_privileges"
  /\ ShouldDrop(uid, cfg)
  /\ gid' = cfg.gid
  /\ uid' = cfg.uid
  /\ idcalls' = idcalls \o DropCalls
  /\ Goto("workers")
  /\ UNCHANGED << v_scan, cfg, severity, log, v_hist, ssl_lock, v_tls,
                  dns_calls, sigpipe, handler, v_proc, v_sock, v_listen,
                  v_loop >>

\* drop_privileges(): setgid fails
drop_privileges_gid_fail ==
  /\ pc = "drop_privileges"
  /\ ShouldDrop(uid, cfg)
  /\ idcalls' = idcalls \o SubSeq(DropCalls, 1, 1)
  /\ log' = LOG("FATAL", "Could not change gid")
  /\ Exit(EXIT_FAILURE)
  /\ UNCHANGED << v_scan, cfg, severity, v_hist, ssl_lock, v_tls, dns_calls,
                  sigpipe, handler, uid, gid, v_proc, v_sock, v_listen,
                  v_loop >>

\* drop_privileges(): setuid fails
drop_privileges_uid_fail ==
  /\ pc = "drop_privileges"
  /\ ShouldDrop(uid, cfg)
  /\ gid' = cfg.gid
  /\ idcalls' = idcalls \o SubSeq(DropCalls, 1, 2)
  /\ log' = LOG("FATAL", "Could not change uid")
  /\ Exit(EXIT_FAILURE)
  /\ UNCHANGED << v_scan, cfg, severity, v_hist, ssl_lock, v_tls, dns_calls,
                  sigpipe, handler, uid, v_proc, v_sock, v_listen, v_loop >>

\* drop_privileges(): setuid(0) succeeds after the drop
drop_privileges_regained ==
  /\ pc = "drop_privileges"
  /\ ShouldDrop(uid, cfg)
  /\ gid' = cfg.gid
  /\ uid' = 0
  /\ idcalls' = idcalls \o DropCalls
  /\ log' = LOG("FATAL", "Still have root privileges?")
  /\ Exit(EXIT_FAILURE)
  /\ UNCHANGED << v_scan, cfg, severity, v_hist, ssl_lock, v_tls, dns_calls,
                  sigpipe, handler, v_proc, v_sock, v_listen, v_loop >>

\* variant: the HTTP/2 session is made whatever the worker count
event_loop_workers_both ==
  /\ pc = "workers"
  /\ workers' =
       [ threads |-> IF cfg.num_worker > 1 THEN cfg.num_worker ELSE 0,
         http2_session |-> cfg.downstream_proto = "PROTO_SPDY" ]
  /\ Goto("event_base_loop")
  /\ UNCHANGED << v_scan, cfg, severity, log, v_hist, ssl_lock, v_tls,
                  dns_calls, sigpipe, handler, v_ident, v_proc, v_sock,
                  v_listen, loop >>

\* variant: the worker count of the store is cleared once the workers are
\* made
event_loop_workers_clearing ==
  /\ pc = "workers"
  /\ workers' =
       IF cfg.num_worker > 1
         THEN [ workers EXCEPT !.threads = cfg.num_worker ]
       ELSE IF cfg.downstream_proto = "PROTO_SPDY"
         THEN [ workers EXCEPT !.http2_session = TRUE ]
       ELSE workers
  /\ cfg' = [ cfg EXCEPT !.num_worker = 0 ]
  /\ Goto("event_base_loop")
  /\ UNCHANGED << v_scan, severity, log, v_hist, ssl_lock, v_tls,
                  dns_calls, sigpipe, handler, v_ident, v_proc, v_sock,
                  v_listen, loop >>

\* worker threads, or the HTTP/2 session, or neither
event_loop_workers ==
  /\ pc = "workers"
  /\ workers' =
       IF cfg.num_worker > 1
         THEN [ workers EXCEPT !.threads = cfg.num_worker ]
       ELSE IF cfg.downstream_proto = "PROTO_SPDY"
         THEN [ workers EXCEPT !.http2_session = TRUE ]
       ELSE workers
  /\ Goto("event_base_loop")
  /\ UNCHANGED << v_scan, cfg, severity, log, v_hist, ssl_lock, v_tls,
                  dns_calls, sigpipe, handler, v_ident, v_proc, v_sock,
                  v_listen, loop >>

\* event_base_loop() is entered
event_loop_enter ==
  /\ pc = "event_base_loop"
  /\ loop = "no"
  /\ loop' = "running"
  /\ log' = LOG("INFO", "Entering event loop")
  /\ Goto("event_base_loop")
  /\ UNCHANGED << v_scan, cfg, severity, v_hist, ssl_lock, v_tls, dns_calls,
                  sigpipe, handler, v_ident, v_proc, v_sock, v_listen,
                  workers >>

\* evlistener_errorcb(): accept failed on a listener
evlistener_errorcb ==
  /\ pc = "event_base_loop"
  /\ loop = "running"
  /\ log' = LOG("ERROR", "Accepting incoming connection failed")
  /\ Goto("event_base_loop")
  /\ UNCHANGED << v_scan, cfg, severity, v_hist, ssl_lock, v_tls, dns_calls,
                  sigpipe, handler, v_ident, v_proc, v_sock, v_listen,
                  v_loop >>

\* event_base_loop() returns
event_loop_leave ==
  /\ pc = "event_base_loop"
  /\ loop = "running"
  /\ loop' = "returned"
  /\ Goto("free")
  /\ UNCHANGED << v_scan, cfg, severity, log, v_hist, ssl_lock, v_tls,
                  dns_calls, sigpipe, handler, v_ident, v_proc, v_sock,
                  v_listen, workers >>

\* variant: the listener is left registered
FreeListenerKept(l) == l
\* evconnlistener_free(): LEV_OPT_CLOSE_ON_FREE closes the socket
FreeListener(l) == [ l EXCEPT !.st = "freed" ]

\* the listeners that exist are freed, IPv4 first; event_loop() returns
event_loop_free ==
  /\ pc = "free"
  /\ LET st0 == [ sockets |-> sockets, bad_close |-> bad_close ]
         st1 == IF evlistener4.st # "null"
                  THEN SockClose(st0, evlistener4.fd) ELSE st0
         st2 == IF evlistener6.st # "null"
                  THEN SockClose(st1, evlistener6.fd) ELSE st1
     IN  /\ sockets' = st2.sockets
         /\ bad_close' = st2.bad_close
  /\ evlistener4' = IF evlistener4.st # "null"
                      THEN FreeListener(evlistener4) ELSE evlistener4
  /\ evlistener6' = IF evlistener6.st # "null"
                      THEN FreeListener(evlistener6) ELSE evlistener6
  /\ Goto("teardown")
  /\ UNCHANGED << v_scan, cfg, severity, log, v_hist, ssl_lock, v_tls,
                  dns_calls, sigpipe, handler, v_ident, v_proc, fd, rp,
                  v_loop >>

\* ssl::teardown_ssl_lock(), return 0
main_teardown ==
  /\ pc = "teardown"
  /\ ssl_lock' = [ ssl_lock EXCEPT !.teardown = @ + 1 ]
  /\ Exit(EXIT_SUCCESS)
  /\ UNCHANGED << v_scan, cfg, severity, log, v_hist, v_tls, dns_calls,
                  sigpipe, handler, v_ident, v_proc, v_sock, v_listen,
                  v_loop >>

---------------------------------------------------------------------------
(* The specification *)

Next ==
  \/ main_getopt_setting
  \/ main_getopt_conf
  \/ main_getopt_help
  \/ main_getopt_version
  \/ main_getopt_unknown
  \/ main_getopt_end
  \/ main_ssl_init
  \/ main_conf_stat
  \/ main_conf_skip
  \/ main_conf_load
  \/ main_conf_fail
  \/ main_positional
  \/ main_parse_cmdcfg
  \/ main_npn_list
  \/ main_cert_tree
  \/ main_subcert_add
  \/ main_subcert_fail
  \/ main_default_ssl_ctx
  \/ main_default_ssl_ctx_fail
  \/ main_check_backend_family
  \/ main_check_mode
  \/ main_set_mode
  \/ main_check_tls
  \/ main_resolve_backend
  \/ main_resolve_backend_fail
  \/ main_resolve_proxy
  \/ main_resolve_proxy_fail
  \/ main_syslog
  \/ main_rate_limit
  \/ main_sigpipe
  \/ event_loop_handler
  \/ event_loop_evbase_fail
  \/ event_loop_daemon
  \/ event_loop_daemon_fail
  \/ event_loop_save_pid
  \/ save_pid_fail
  \/ create_evlistener_unresolved
  \/ create_evlistener_resolved
  \/ create_evlistener_candidate
  \/ create_evlistener_listen
  \/ create_evlistener_die
  \/ create_evlistener_die_ndebug
  \/ create_evlistener_absent
  \/ event_loop_check_listeners
  \/ drop_privileges_skip
  \/ drop_privileges_done
  \/ drop_privileges_gid_fail
  \/ drop_privileges_uid_fail
  \/ drop_privileges_regained
  \/ event_loop_workers
  \/ event_loop_enter
  \/ evlistener_errorcb
  \/ event_loop_leave
  \/ event_loop_free
  \/ main_teardown

Spec == Init /\ [][Next]_vars

---------------------------------------------------------------------------
(* The rate-limit descriptor on its own: main() at the call of             *)
(* ev_token_bucket_cfg_new(), reached in client mode with the four limits  *)
(* given on the command line.                                              *)

\* the values given to --read-rate, --read-burst, --write-rate, --write-burst
RateArgs == { "0", "1", "1000", "2000" }

InitRate ==
  /\ pc = "rate_limit"
  /\ exit_status = RUNNING
  /\ exit_at = ""
  /\ nscanned = 0
  /\ cmdcfgs = << >>
  /\ operands = 0
  /\ \E rr \in RateArgs, rb \in RateArgs, wr \in RateArgs, wb \in RateArgs :
       /\ cfg = [ SetMode([ fill_default_config EXCEPT
                              !.client = TRUE,
                              !.npn_list = "DEFAULT_NPN_LIST" ])
                    EXCEPT !.read_rate = StrToNum(rr),
                           !.read_burst = StrToNum(rb),
                           !.write_rate = StrToNum(wr),
                           !.write_burst = StrToNum(wb),
                           !.downstream_hostport = "127.0.0.1:80",
                           !.downstream_addr = "AF_INET",
                           !.downstream_addrlen = AddrLen("AF_INET") ]
       /\ src_cli = [ [ o \in SettingOpts |-> NoVal ] EXCEPT
                        ![ "client" ] = "yes",
                        ![ "read-rate" ] = rr, ![ "read-burst" ] = rb,
                        ![ "write-rate" ] = wr, ![ "write-burst" ] = wb ]
  /\ severity = "WARNING"
  /\ log = {}
  /\ src_file = [ o \in SettingOpts |-> NoVal ]
  /\ sub_file = << >>
  /\ sub_cli = << >>
  /\ conf_loaded = 0
  /\ conf_stat = NoStat
  /\ ssl_lock = [ setup |-> 1, teardown |-> 0 ]
  /\ ssl_ctxs = << >>
  /\ cert_tree = {}
  /\ dns_calls = 1
  /\ sigpipe = "SIG_DFL"
  /\ handler = NoHandler
  /\ uid \in { 0, 1000 }
  /\ gid = uid
  /\ idcalls = << >>
  /\ pid = 4711
  /\ daemonized = FALSE
  /\ pid_file = << "absent" >>
  /\ sockets = [ f \in FdPool |-> NoSock ]
  /\ fd = 0 - 1
  /\ rp = 0
  /\ bad_close = FALSE
  /\ evlistener6 = NoListener
  /\ evlistener4 = NoListener
  /\ workers = [ threads |-> 0, http2_session |-> FALSE ]
  /\ loop = "no"

NextRate ==
  \/ main_rate_limit
  \/ main_sigpipe

SpecRate == InitRate /\ [][NextRate]_vars

---------------------------------------------------------------------------
(* Positions *)

\* the positions of main() and event_loop(), in program order
Stages ==
  << "getopt", "ssl_init", "conf", "conf_exists", "positional", "parse",
     "cert_tree", "subcerts", "check_family", "check_mode", "set_mode",
     "check_tls", "resolve_backend", "resolve_proxy", "syslog",
     "rate_limit", "sigpipe", "event_loop", "daemon", "save_pid",
     "listen6", "loop6", "after6", "listen4", "loop4", "after4",
     "check_listeners", "drop_privileges", "workers", "event_base_loop",
     "free", "teardown" >>

\* the index of each position in Stages
StageIndex ==
  [ p \in { Stages[i] : i \in 1..Len(Stages) } |->
      CHOOSE i \in 1..Len(Stages) : Stages[i] = p ]

StageNo(p) == StageIndex[p]

\* where the process is, or where it ended
Stage == IF pc = "exit" THEN exit_at ELSE pc

\* for each position, the positions at or after it in program order
StagesFrom ==
  [ p \in DOMAIN StageIndex |->
      { s \in DOMAIN StageIndex : StageNo(s) >= StageNo(p) } ]

\* for each position, the positions after it in program order
StagesAfter ==
  [ p \in DOMAIN StageIndex |->
      { s \in DOMAIN StageIndex : StageNo(s) > StageNo(p) } ]

\* the run has come to position p
Reached(p) == Stage \in StagesFrom[p]
\* the run has gone beyond position p
Past(p) == Stage \in StagesAfter[p]
\* the step at position p has been taken
Ran(p) == Past(p) \/ (pc = "exit" /\ exit_at = p)

TypeOK ==
  /\ pc \in { Stages[i] : i \in 1..Len(Stages) } \cup { "exit" }
  /\ exit_status \in { RUNNING, EXIT_SUCCESS, EXIT_FAILURE, ABORTED }
  /\ (pc = "exit") = (exit_status # RUNNING)
  /\ rp \in 0..MaxCand
  /\ loop \in { "no", "running", "returned" }

---------------------------------------------------------------------------
(* Properties *)

\* nothing has touched the network, the process table, the PID file or the
\* identity of the process
NoNetworkOrPrivilegeAction ==
  /\ dns_calls = 0
  /\ \A f \in FdPool : ~ sockets[f].open
  /\ evlistener6.st = "null" /\ evlistener4.st = "null"
  /\ ~ daemonized
  /\ pid_file = << "absent" >>
  /\ idcalls = << >>

\* how many of the four mode flags are set in the store
ModesSet(c) ==
  Cardinality({ m \in { "http2_proxy", "http2_bridge", "client_proxy",
                        "client" } : c[m] })

\* C1: once the settings are merged, a store with more than one mode flag
\* set never gets beyond the mode check: the process ends there (or at an
\* earlier check) with a failure status, and no name has been resolved, no
\* socket created, no daemon() made, no PID file written and no identity
\* call made.
C1_ModeConflictRejected ==
  (Past("parse") /\ ModesSet(cfg) > 1) =>
    /\ ~ Past("check_mode")
    /\ (pc = "exit" => exit_status = EXIT_FAILURE)
    /\ NoNetworkOrPrivilegeAction

\* --http2-proxy and --client together: refused at the mode check
C1_Witness ==
  /\ pc = "exit" /\ exit_at = "check_mode"
  /\ exit_status = EXIT_FAILURE
  /\ cfg.http2_proxy /\ cfg.client

\* C2: the identity calls are made in the order setgid, setuid, setuid(0);
\* after setgid the group is the configured one and after a completed drop
\* the user is the configured one; when setgid fails, setuid fails or
\* setuid(0) succeeds the process ends in drop_privileges with a failure
\* status, with no worker thread, no HTTP/2 session and the event loop
\* never entered.
C2_DropOrderAndFailure ==
  /\ idcalls \in { << >>, << "setgid" >>, << "setgid", "setuid" >>,
                   << "setgid", "setuid", "setuid0" >> }
  /\ (Len(idcalls) >= 2 => gid = cfg.gid)
  /\ (Len(idcalls) = 3 /\ uid # 0 => uid = cfg.uid)
  /\ (Len(idcalls) \in { 1, 2 } \/ (Len(idcalls) = 3 /\ uid = 0)) =>
       /\ pc = "exit" /\ exit_at = "drop_privileges"
       /\ exit_status = EXIT_FAILURE
       /\ workers.threads = 0 /\ ~ workers.http2_session
       /\ loop = "no"

\* root was regained after the drop: the process ended with a failure
C2_Witness ==
  /\ idcalls = << "setgid", "setuid", "setuid0" >>
  /\ uid = 0 /\ gid = 65533
  /\ pc = "exit" /\ exit_status = EXIT_FAILURE

\* C3: no step changes the user, the group or the list of identity calls
\* made unless the process runs as uid 0 and the configured uid is not 0.
C3_NoDropUnlessRootAndTarget ==
  [][ ~ (uid = 0 /\ cfg.uid # 0) =>
        (uid' = uid /\ gid' = gid /\ idcalls' = idcalls) ]_vars

\* an unprivileged process asked to run as nobody: drop_privileges returned
\* without a call
C3_Witness ==
  /\ pc = "workers"
  /\ uid = 1000 /\ gid = 1000 /\ cfg.uid = 65534
  /\ idcalls = << >>

\* C4: from the privilege drop on, every configured server context has been
\* built, both listener attempts are over, at least one listener exists and
\* the only open sockets are those of the listeners; an identity call is
\* made at the privilege drop only.  (A context or a socket made later
\* would break the counts.)
C4_DropAfterTlsAndListeners ==
  /\ idcalls # << >> => Ran("drop_privileges")
  /\ Reached("drop_privileges") =>
       /\ Len(ssl_ctxs) =
            Len(cfg.subcerts) +
              (IF cfg.cert_file # NULL /\ cfg.private_key_file # NULL
                 THEN 1 ELSE 0)
       /\ (evlistener6.st # "null" \/ evlistener4.st # "null")
       /\ rp = 0 /\ fd = 0 - 1
       /\ \A f \in FdPool :
            sockets[f].open =>
              /\ sockets[f].bound
              /\ \/ evlistener6.st = "listening" /\ evlistener6.fd = f
                 \/ evlistener4.st = "listening" /\ evlistener4.fd = f

\* root dropped to nobody with two server contexts and the IPv6 listener
C4_Witness ==
  /\ pc = "workers"
  /\ idcalls = << "setgid", "setuid", "setuid0" >> /\ uid = 65534
  /\ Len(ssl_ctxs) = 2
  /\ evlistener6.st = "listening"

DigitValue(ch) ==
  CASE ch = "0" -> 0 [] ch = "1" -> 1 [] ch = "2" -> 2 [] ch = "3" -> 3
    [] ch = "4" -> 4 [] ch = "5" -> 5 [] ch = "6" -> 6 [] ch = "7" -> 7
    [] ch = "8" -> 8 [] ch = "9" -> 9

\* the number a string of digits reads as
RECURSIVE DigitsValue(_)
DigitsValue(ds) ==
  IF ds = << >> THEN 0
  ELSE 10 * DigitsValue(SubSeq(ds, 1, Len(ds) - 1)) + DigitValue(ds[Len(ds)])

\* text is n in decimal, without leading zeros, then one newline
IsDecimalLine(text, n) ==
  /\ Len(text) >= 2
  /\ text[Len(text)] = "\n"
  /\ \A i \in 1..(Len(text) - 1) :
       text[i] \in { "0", "1", "2", "3", "4", "5", "6", "7", "8", "9" }
  /\ (Len(text) > 2 => text[1] # "0")
  /\ DigitsValue(SubSeq(text, 1, Len(text) - 1)) = n

\* C5: with --daemon and a PID file configured, daemon() has succeeded when
\* save_pid is reached, and once save_pid has returned the file holds the
\* process id of the daemon in decimal followed by one newline.
C5_PidFileAfterDaemon ==
  (cfg.daemon /\ cfg.pid_file # NULL) =>
    /\ (Reached("save_pid") => daemonized)
    /\ (Past("save_pid") => daemonized /\ IsDecimalLine(pid_file, pid))

\* the daemon got pid 120 and wrote "120\n"
C5_Witness ==
  /\ pc = "listen6"
  /\ cfg.daemon /\ daemonized
  /\ pid = 120
  /\ pid_file = << "1", "2", "0", "\n" >>

\* a socket of the family is open and bound
BoundSocket(family) ==
  \E f \in FdPool :
    sockets[f].open /\ sockets[f].bound /\ sockets[f].family = family

\* both calls of create_evlistener are over, or the process ended in one
AttemptsEnded ==
  Reached("check_listeners") \/ (pc = "exit" /\ exit_at \in { "after6", "after4" })

\* C6: once the listener attempts are over (and until the listeners are
\* freed), a family that resolved and bound a socket has its listener and
\* a family that did not has none; with a socket bound for at least one
\* family the bootstrap goes on; with none the process ends with a failure
\* status at the check of the listeners and the event loop is not entered.
C6_ListenersAsStated ==
  (AttemptsEnded /\ ~ Reached("free")) =>
    /\ BoundSocket("AF_INET6") = (evlistener6.st = "listening")
    /\ BoundSocket("AF_INET") = (evlistener4.st = "listening")
    /\ (BoundSocket("AF_INET6") \/ BoundSocket("AF_INET")) =>
         ~ (pc = "exit" /\ exit_at \in { "after6", "after4", "check_listeners" })
    /\ (~ BoundSocket("AF_INET6") /\ ~ BoundSocket("AF_INET")) =>
         /\ ~ Past("check_listeners")
         /\ (pc = "exit" => exit_status = EXIT_FAILURE)
         /\ loop = "no"

\* the IPv6 socket is bound, getnameinfo() fails and the process is aborted
C6_Witness ==
  /\ pc = "exit" /\ exit_at = "after6" /\ exit_status = ABORTED
  /\ BoundSocket("AF_INET6")
  /\ evlistener6.st = "null" /\ evlistener4.st = "null"

\* the last value an option was given: on the command line, else in the file
LastValue(o) == IF src_cli[o] # NoVal THEN src_cli[o] ELSE src_file[o]

\* the store with the last value of each of the options applied to it
RECURSIVE ApplyLast(_, _)
ApplyLast(c, opts) ==
  IF opts = {} THEN c
  ELSE LET o == CHOOSE x \in opts : TRUE
       IN  ApplyLast(IF LastValue(o) = NoVal THEN c
                     ELSE parse_config(c, o, LastValue(o)),
                     opts \ { o })

\* the fields the merge sets from single-valued options
MergedFields ==
  DOMAIN fill_default_config \ { "subcerts", "conf_path", "npn_list" }

\* every single-valued setting holds the value of the last source that set
\* it: the command line, else the config file, else the default
LastSourceWins ==
  /\ LET merged == ApplyLast(fill_default_config, SettingOpts)
     IN  \A f \in MergedFields : cfg[f] = merged[f]
  /\ severity = IF LastValue("log-level") # NoVal
                  THEN LastValue("log-level") ELSE "WARNING"

\* C7 as stated: after the merge every setting, the list of subcert pairs
\* included, holds what the last source that set it gave.
C7_LastSourceWinsEveryKey ==
  pc = "cert_tree" =>
    /\ LastSourceWins
    /\ cfg.subcerts = IF sub_cli # << >> THEN sub_cli ELSE sub_file

\* C7 amended: after the merge every single-valued setting holds what the
\* last source that set it gave (defaults, then the file, then the command
\* line in order, the positional key and certificate last); the subcert
\* pairs of the file and of the command line are all kept, the file's
\* first.
C7_MergeOrder ==
  pc = "cert_tree" =>
    /\ LastSourceWins
    /\ cfg.subcerts = sub_file \o sub_cli

\* a key in the file, --workers=2 on the command line, then positional key
\* and certificate: the positional key replaces the file's
C7_Witness ==
  /\ pc = "cert_tree"
  /\ src_file[ "private-key-file" ] = "file.key"
  /\ src_cli[ "private-key-file" ] = "server.key"
  /\ cfg.private_key_file = "server.key"
  /\ cfg.num_worker = 2

\* C8: each entry of the descriptor is EV_RATE_LIMIT_MAX when the limit it
\* is made from is 0 and that limit itself otherwise, whatever the other
\* three limits are.
C8_RateLimitTranslation ==
  cfg.rate_limit_cfg # << >> =>
    LET configured == << cfg.read_rate, cfg.read_burst, cfg.write_rate,
                         cfg.write_burst >>
    IN  /\ Len(cfg.rate_limit_cfg) = 4
        /\ \A i \in 1..4 :
             cfg.rate_limit_cfg[i] =
               IF configured[i] = 0 THEN 2147483647 ELSE configured[i]

\* read 0/0 and write 1000/2000: no read limit, write limits as given
C8_Witness ==
  /\ cfg.read_rate = 0 /\ cfg.read_burst = 0
  /\ cfg.write_rate = 1000 /\ cfg.write_burst = 2000
  /\ cfg.rate_limit_cfg = << 2147483647, 2147483647, 1000, 2000 >>

\* TLS material is required and not complete
MissingTlsMaterial(c) ==
  /\ ~ (c.client \/ c.client_proxy)
  /\ ~ c.upstream_no_tls
  /\ (c.private_key_file = NULL \/ c.cert_file = NULL)

C10_CertTree ==
  LET n == Len(cfg.subcerts)
      p == IF cfg.cert_file # NULL /\ cfg.private_key_file # NULL
             THEN 1 ELSE 0
  IN  /\ Past("subcerts") =>
           /\ Len(ssl_ctxs) = n + p
           /\ (Len(ssl_ctxs) > 1 => cfg.cert_tree # NULL)
           /\ (cfg.cert_tree # NULL => cert_tree = 1..(n + p))
           /\ (cfg.cert_tree = NULL => cert_tree = {})
           /\ (p = 1 => /\ cfg.default_ssl_ctx = n + 1
                        /\ ssl_ctxs[n + 1] = cfg.cert_file)
      /\ (pc = "exit" /\ exit_at = "subcerts") =>
           /\ exit_status = EXIT_FAILURE
           /\ cert_tree = 1..(Len(ssl_ctxs) - 1)

\* two --subcert pairs and a primary pair: three contexts, all in the tree
C10_Witness ==
  /\ pc = "check_family"
  /\ Len(cfg.subcerts) = 2
  /\ Len(ssl_ctxs) = 3
  /\ cert_tree = { 1, 2, 3 }
  /\ cfg.default_ssl_ctx = 3

\* the file type test the comment of conf_exists() announces
RegularOrSymlink(st) == st.rv = 0 /\ st.st_mode \in { S_IFREG, S_IFLNK }

\* C11: at the decision on the config file, load_config() is called
\* exactly when stat() found a regular file or a symbolic link; otherwise
\* the run goes on to the positional arguments with the store and the log
\* untouched; a run that ends there ends with a failure status.
C11_ConfLoadedIffRegular ==
  [][ pc = "conf_exists" =>
        /\ (conf_loaded' = conf_loaded + 1) = RegularOrSymlink(conf_stat)
        /\ (~ RegularOrSymlink(conf_stat) =>
              pc' = "positional" /\ cfg' = cfg /\ log' = log)
        /\ (pc' = "exit" => exit_status' = EXIT_FAILURE) ]_vars

\* stat() reports a character device (such as /dev/null) and the test of
\* conf_exists() lets it through
C11_Witness ==
  /\ pc = "conf_exists"
  /\ conf_stat = [ rv |-> 0, st_mode |-> 8192 ]
  /\ ENABLED main_conf_load

\* no step of the bootstrap after the option scan has left a trace
NoBootstrap ==
  /\ conf_loaded = 0
  /\ severity = "WARNING" /\ log = {}
  /\ ssl_ctxs = << >> /\ cert_tree = {}
  /\ NoNetworkOrPrivilegeAction
  /\ uid \in { 0, 1000 } /\ gid = uid

\* C12 as stated: a run that ends in the option scan ends with status 0
\* (help, version) or with EXIT_FAILURE (unknown flag), the store is as
\* fill_default_config() left it and no bootstrap step has been taken.
C12_ScanExitTouchesNothing ==
  (pc = "exit" /\ exit_at = "getopt") =>
    /\ exit_status \in { EXIT_SUCCESS, EXIT_FAILURE }
    /\ cfg = fill_default_config
    /\ NoBootstrap

\* C12, the part the code keeps: but for the path given with --conf, which
\* the scan stores at once (and print_help() then shows as the default),
\* every field of the store is the default and no bootstrap step is taken.
C12_ScanExitAppliesOnlyConf ==
  (pc = "exit" /\ exit_at = "getopt") =>
    /\ exit_status \in { EXIT_SUCCESS, EXIT_FAILURE }
    /\ cfg = [ fill_default_config EXCEPT !.conf_path = cfg.conf_path ]
    /\ NoBootstrap

\* --conf=/tmp/alt.conf -h: the run ended with status 0 in the scan and
\* the store holds the path of the command line
C12_Witness ==
  /\ pc = "exit" /\ exit_at = "getopt" /\ exit_status = EXIT_SUCCESS
  /\ cfg.conf_path = "/tmp/alt.conf"
  /\ conf_loaded = 0

\* no listener has been created: no listening socket, no listener object
NoListenerCreated ==
  /\ \A f \in FdPool : ~ sockets[f].open
  /\ evlistener6 = NoListener /\ evlistener4 = NoListener

\* the step of create_evlistener() in which getaddrinfo() fails for the
\* family: the only step from the call straight to its return
UnresolvedStep(from, to) == pc = from /\ pc' = to

\* C13, what the code does for the failures of name resolution, but for
\* the log record: main() leaves the backend (proxy) resolution either
\* with an address in the store or by exit(EXIT_FAILURE) while no listener
\* exists; a family of the frontend that does not resolve gets no listener,
\* the other family's listener is left as it is, and the IPv4 call, which
\* follows the IPv6 call, asks getaddrinfo() whatever the IPv6 call gave.
ResolutionFailureHandling ==
  /\ (pc = "resolve_backend" /\ pc' # "exit") =>
       cfg'.downstream_addr \in { "AF_INET", "AF_INET6" }
  /\ (pc = "resolve_proxy" /\ pc' # "exit"
        /\ cfg.downstream_http_proxy_host # NULL) =>
       cfg'.downstream_http_proxy_addr \in { "AF_INET", "AF_INET6" }
  /\ (pc \in { "resolve_backend", "resolve_proxy" } /\ pc' = "exit") =>
       /\ exit_status' = EXIT_FAILURE
       /\ (pc = "resolve_proxy" => cfg.downstream_http_proxy_host # NULL)
       /\ NoListenerCreated'
  /\ UnresolvedStep("listen6", "listen4") =>
       /\ evlistener6' = NoListener /\ evlistener4' = evlistener4
       /\ sockets' = sockets
  /\ pc = "listen4" =>
       dns_calls' = dns_calls + 1 /\ pc' \in { "loop4", "check_listeners" }
  /\ UnresolvedStep("listen4", "check_listeners") =>
       /\ evlistener4' = NoListener /\ evlistener6' = evlistener6
       /\ sockets' = sockets

C14_PidFileIffConfigured ==
  /\ ~ Past("save_pid") =>
       pid_file \in { << "absent" >>, << >> }
  /\ (pid_file = << >>) => (pc = "exit" /\ exit_at = "save_pid")
  /\ Past("save_pid") =>
       /\ (pid_file # << "absent" >>) = (cfg.pid_file # NULL)
       /\ (cfg.pid_file # NULL) => IsDecimalLine(pid_file, pid)
  /\ (pc = "exit" /\ exit_at = "save_pid") =>
       /\ exit_status = EXIT_FAILURE
       /\ cfg.pid_file # NULL
       /\ NoListenerCreated
       /\ idcalls = << >> /\ gid = uid /\ uid \in { 0, 1000 }
       /\ workers = [ threads |-> 0, http2_session |-> FALSE ]
       /\ loop = "no"

\* the write of the configured PID file failed and left an empty file
C14_Witness ==
  /\ pc = "exit" /\ exit_at = "save_pid"
  /\ cfg.pid_file # NULL
  /\ pid_file = << >>
  /\ exit_status = EXIT_FAILURE

\* resolving the backend can give an address of family a at this state
BackendCanResolveTo(a) ==
  ENABLED (main_resolve_backend /\ cfg'.downstream_addr = a)

\* C15: where the backend is resolved, --backend-ipv4 alone allows an IPv4
\* address only, --backend-ipv6 alone an IPv6 address only, neither flag an
\* address of either family, and the address stored afterwards is of such
\* a family; with both flags the process ends at the check of the two
\* flags with EXIT_FAILURE, and no name is ever resolved.
C15_BackendFamilyTriState ==
  /\ pc = "resolve_backend" =>
       /\ ~ (cfg.backend_ipv4 /\ cfg.backend_ipv6)
       /\ BackendCanResolveTo("AF_INET") = ~ cfg.backend_ipv6
       /\ BackendCanResolveTo("AF_INET6") = ~ cfg.backend_ipv4
  /\ Past("resolve_backend") =>
       /\ cfg.downstream_addr \in { "AF_INET", "AF_INET6" }
       /\ cfg.backend_ipv4 => cfg.downstream_addr = "AF_INET"
       /\ cfg.backend_ipv6 => cfg.downstream_addr = "AF_INET6"
  /\ (Reached("check_family") /\ cfg.backend_ipv4 /\ cfg.backend_ipv6) =>
       /\ dns_calls = 0
       /\ Stage = "check_family"
       /\ pc = "exit" => exit_status = EXIT_FAILURE
  /\ (pc = "exit" /\ exit_at = "check_family") =>
       cfg.backend_ipv4 /\ cfg.backend_ipv6

\* --backend-ipv6 alone: the backend was resolved to an IPv6 address
C15_Witness ==
  /\ pc = "resolve_proxy"
  /\ cfg.backend_ipv6 /\ ~ cfg.backend_ipv4
  /\ cfg.downstream_addr = "AF_INET6"
  /\ dns_calls = 1

\* the two settings main() makes of the positional arguments
PositionalSettings ==
  << << "private-key-file", "server.key" >>,
     << "certificate-file", "server.crt" >> >>

\* the store once the loop of main() has applied the settings cs to c
RECURSIVE ApplyCmdcfgs(_, _)
ApplyCmdcfgs(c, cs) ==
  IF cs = << >> THEN c
  ELSE ApplyCmdcfgs(parse_config(c, Head(cs)[1], Head(cs)[2]), Tail(cs))

\* the value a source gave for option o, or the default of its field
ValueOr(v, o) == IF v = NoVal THEN fill_default_config[StringField[o]] ELSE v

\* C16: in the loop that applies the command-line settings, when two
\* positional arguments were left the settings still to apply end with
\* private-key-file = first argument, certificate-file = second argument
\* (they are the last command-line settings), and the store the loop ends
\* with holds these two values; when fewer than two were left no setting
\* comes from a positional argument, and the key and the certificate of
\* the final store are those of the options and of the config file.
C16_PositionalKeyAndCert ==
  pc = "parse" =>
    LET n     == Len(cmdcfgs)
        valid == \A i \in 1..n : ~ ParseFails(cmdcfgs[i][1], cmdcfgs[i][2])
        final == ApplyCmdcfgs(cfg, cmdcfgs)
    IN
    IF operands >= 2
      THEN /\ \/ n >= 2 /\ SubSeq(cmdcfgs, n - 1, n) = PositionalSettings
              \/ n = 1 /\ cmdcfgs = Tail(PositionalSettings)
                       /\ cfg.private_key_file = "server.key"
              \/ n = 0
           /\ valid => /\ final.private_key_file = "server.key"
                       /\ final.cert_file = "server.crt"
                       /\ final = ApplyCmdcfgs(final, PositionalSettings)
      ELSE /\ \A i \in 1..n :
                cmdcfgs[i][1] \notin { "private-key-file", "certificate-file" }
           /\ src_cli["private-key-file"] = NoVal
           /\ src_cli["certificate-file"] = NoVal
           /\ valid =>
                /\ final.private_key_file =
                     ValueOr(src_file["private-key-file"], "private-key-file")
                /\ final.cert_file =
                     ValueOr(src_file["certificate-file"], "certificate-file")

\* the config file names a key, two positional arguments were given, and
\* the loop has applied them: the store holds the positional key and
\* certificate
C16_Witness ==
  /\ pc = "parse" /\ cmdcfgs = << >>
  /\ operands = 2
  /\ src_file["private-key-file"] = "file.key"
  /\ cfg.private_key_file = "server.key"
  /\ cfg.cert_file = "server.crt"

\* C17: whenever a listener is registered with the event loop, or the loop
\* runs, SIGPIPE is ignored; it is ignored from the sigaction() call of
\* main() to the end of the process, and has its default disposition and
\* no listener before.
C17_SigpipeIgnored ==
  /\ (evlistener6.st = "listening" \/ evlistener4.st = "listening"
        \/ loop # "no") => sigpipe = "SIG_IGN"
  /\ Past("sigpipe") => sigpipe = "SIG_IGN"
  /\ ~ Past("sigpipe") =>
       /\ sigpipe = "SIG_DFL"
       /\ evlistener6 = NoListener /\ evlistener4 = NoListener

\* both listeners are registered, the loop runs, SIGPIPE is ignored
C17_Witness ==
  /\ loop = "running"
  /\ evlistener6.st = "listening" /\ evlistener4.st = "listening"
  /\ sigpipe = "SIG_IGN"

\* a step that has not been reached has left no trace: what each step of
\* main() and event_loop() makes is as at the start, or the run has come to
\* the step
NoLaterStepExecuted ==
  /\ ssl_lock.setup = 0 \/ Reached("ssl_init")
  /\ conf_loaded = 0 \/ Reached("conf_exists")
  /\ (ssl_ctxs = << >> /\ cert_tree = {}) \/ Reached("cert_tree")
  /\ dns_calls = 0 \/ Reached("resolve_backend")
  /\ ~ handler.made \/ Reached("event_loop")
  /\ ~ daemonized \/ Reached("daemon")
  /\ pid_file = << "absent" >> \/ Reached("save_pid")
  /\ NoListenerCreated \/ Reached("listen6")
  /\ idcalls = << >> \/ Reached("drop_privileges")
  /\ workers = [ threads |-> 0, http2_session |-> FALSE ]
       \/ Reached("workers")
  /\ loop = "no" \/ Reached("event_base_loop")
  /\ ssl_lock.teardown = 0 \/ Reached("teardown")

\* a step that has been passed has succeeded (a step that has failed is
\* not passed), and was taken once
PassedStepsSucceeded ==
  /\ conf_loaded <= 1 /\ ssl_lock.setup <= 1 /\ ssl_lock.teardown <= 1
  /\ (cfg.backend_ipv4 /\ cfg.backend_ipv6) => ~ Past("check_family")
  /\ Past("check_mode") => ModesSet(cfg) <= 1
  /\ cfg.downstream_addr = NULL => ~ Past("resolve_backend")
  /\ (cfg.downstream_http_proxy_host # NULL
        /\ cfg.downstream_http_proxy_addr = NULL) => ~ Past("resolve_proxy")
  /\ (cfg.daemon /\ ~ daemonized) => ~ Past("daemon")
  /\ (cfg.pid_file # NULL /\ Past("save_pid")) =>
       IsDecimalLine(pid_file, pid)
  /\ (evlistener6.st = "null" /\ evlistener4.st = "null") =>
       ~ Past("check_listeners")
  /\ ~ (\/ idcalls = << >>
        \/ Len(idcalls) = 3 /\ uid = cfg.uid /\ uid # 0 /\ gid = cfg.gid) =>
       ~ Past("drop_privileges")

\* C18: a run that ends with status 0 ended in the option scan (help or
\* version, nothing done) or at the end of main() after event_base_loop()
\* was entered and returned; a run that ends anywhere else ends with a
\* non-zero status; once the process has exited no step is taken; a step
\* is left behind only when it succeeded, and no step after the one the
\* run is at (or ended at) has had any effect.
C18_ExitStatus ==
  [] ( /\ pc = "exit" =>
            /\ exit_status = EXIT_SUCCESS =>
                 \/ exit_at = "getopt" /\ NoBootstrap
                 \/ exit_at = "teardown" /\ loop = "returned"
            /\ exit_at \notin { "getopt", "teardown" } =>
                 exit_status \in { EXIT_FAILURE, ABORTED }
            /\ ~ ENABLED Next
       /\ PassedStepsSucceeded
       /\ NoLaterStepExecuted )

\* the drop of privileges failed at setuid(): the run ended there with
\* EXIT_FAILURE, listeners made, no worker, no event loop
C18_Witness ==
  /\ pc = "exit" /\ exit_at = "drop_privileges"
  /\ exit_status = EXIT_FAILURE
  /\ idcalls = << "setgid", "setuid" >>
  /\ evlistener6.st = "listening"
  /\ loop = "no"

\* the positions inside the call of create_evlistener for IPv6
Ipv6Attempt == { "listen6", "loop6", "after6" }

\* C19: the IPv6 call of create_evlistener comes first (while it runs
\* nothing of IPv4 exists: no IPv4 socket, no IPv4 listener), and the
\* process never ends inside it, whatever fails there: the run always
\* comes to the IPv4 call.
C19_Ipv4AlwaysAttempted ==
  /\ Stage \in Ipv6Attempt =>
       /\ evlistener4 = NoListener
       /\ \A f \in FdPool : sockets[f].open => sockets[f].family = "AF_INET6"
  /\ ~ (pc = "exit" /\ exit_at \in Ipv6Attempt)

\* the IPv6 socket is bound and getnameinfo() fails on its address: the
\* process ends in the IPv6 call, before getaddrinfo() is asked for IPv4
C19_Witness ==
  /\ pc = "exit" /\ exit_at = "after6"
  /\ exit_status # EXIT_SUCCESS
  /\ \E f \in FdPool : sockets[f].bound /\ sockets[f].v6only
  /\ \A f \in FdPool : sockets[f].family # "AF_INET"
  /\ evlistener4 = NoListener

\* C20: worker threads or the HTTP/2 session exist only once the run has
\* come past drop_privileges() with at least one listener made, and then
\* the drop was either not due or complete (group and user changed, root
\* not regained); a run that ended at the check of the listeners or in
\* drop_privileges() has neither.
C20_WorkersAfterDropAndListeners ==
  /\ (workers.threads > 0 \/ workers.http2_session) =>
       /\ Past("workers")
       /\ evlistener6.st # "null" \/ evlistener4.st # "null"
       /\ \/ idcalls = << >> /\ gid = uid /\ uid \in { 0, 1000 }
          \/ /\ idcalls = << "setgid", "setuid", "setuid0" >>
             /\ uid = cfg.uid /\ gid = cfg.gid /\ uid # 0
  /\ (pc = "exit" /\ exit_at \in { "check_listeners", "drop_privileges" }) =>
       workers = [ threads |-> 0, http2_session |-> FALSE ]
  /\ Past("workers") =>
       /\ workers.threads = (IF cfg.num_worker > 1 THEN cfg.num_worker ELSE 0)
       /\ workers.http2_session =>
            cfg.num_worker <= 1 /\ cfg.downstream_proto = "PROTO_SPDY"

\* started as root with --user=nobody and --workers=2: the privileges are
\* dropped, a listener exists and two worker threads are made
C20_Witness ==
  /\ pc = "event_base_loop"
  /\ workers.threads = 2
  /\ idcalls = << "setgid", "setuid", "setuid0" >>
  /\ uid = 65534
  /\ evlistener4.st = "listening"

\* the sockets of a family that are open and bound
BoundSockets(socks, family) ==
  { f \in FdPool : socks[f].open /\ socks[f].bound
                     /\ socks[f].family = family }

\* a bound socket went through every call of the loop body: SO_REUSEADDR,
\* non-blocking and, for IPv6, IPV6_V6ONLY
FullySetUp(s) ==
  s.reuseaddr /\ s.nonblock /\ (s.v6only = (s.family = "AF_INET6"))

RegisteredAsConfigured(l) ==
  /\ l.backlog = cfg.backlog
  /\ l.errorcb
  /\ l.fd \in FdPool /\ sockets[l.fd].open /\ sockets[l.fd].bound

\* C22: every listener that is registered (from its creation, so when the
\* event loop is entered too) has the configured backlog and the error
\* callback; a call of the error callback while the loop runs writes its
\* record (severity ERROR) and changes nothing else: the process goes on
\* in the loop and both listeners are as they were.
C22_ErrorCallbackOnlyLogs ==
  [][ /\ \A l \in { evlistener6', evlistener4' } :
           l.st = "listening" => RegisteredAsConfigured(l)'
      /\ (pc = "event_base_loop" /\ loop = "running" /\ pc' # "free") =>
           /\ pc' = "event_base_loop" /\ loop' = "running"
           /\ exit_status' = RUNNING
           /\ evlistener6' = evlistener6 /\ evlistener4' = evlistener4
           /\ sockets' = sockets
           /\ log \subseteq log'
           /\ severity # "FATAL" =>
                "Accepting incoming connection failed" \in log'
           /\ UNCHANGED << cfg, workers, uid, gid, idcalls, sigpipe,
                           handler, pid_file, ssl_lock >> ]_vars

\* the error callback has been called while both listeners are registered
\* and the loop runs
C22_Witness ==
  /\ pc = "event_base_loop" /\ loop = "running"
  /\ "Accepting incoming connection failed" \in log
  /\ evlistener6.st = "listening" /\ evlistener4.st = "listening"
  /\ evlistener6.errorcb /\ evlistener4.errorcb
  /\ evlistener4.backlog = cfg.backlog

\* C23: the listeners are freed only once event_base_loop() has returned;
\* after that step every listener that existed is freed and its socket
\* closed, no descriptor was closed twice or without being open, an absent
\* listener is as it was, and the TLS locks are not yet released; they are
\* released in the last step, which ends the run with status 0; the locks
\* are set up at most once, released at most once, never released without
\* having been set up nor before the loop returned.
C23_CleanupOrder ==
  [] ( /\ ssl_lock.setup <= 1 /\ ssl_lock.teardown <= ssl_lock.setup
       /\ ssl_lock.teardown = 1 =>
            /\ pc = "exit" /\ exit_at = "teardown" /\ exit_status = EXIT_SUCCESS
            /\ loop = "returned"
       /\ (pc = "exit" /\ exit_at = "teardown") => ssl_lock.teardown = 1
       /\ \A l \in { evlistener6, evlistener4 } :
            /\ l.st = "freed" => Past("free") /\ loop = "returned"
            /\ l.st = "null" => l = NoListener
       /\ Past("free") =>
            /\ evlistener6.st \in { "null", "freed" }
            /\ evlistener4.st \in { "null", "freed" }
            /\ evlistener6.st = "freed" \/ evlistener4.st = "freed"
            /\ \A f \in FdPool : ~ sockets[f].open
            /\ ~ bad_close
       /\ pc = "free" =>
            /\ loop = "returned"
            /\ \A l \in { evlistener6, evlistener4 } :
                 l.st # "null" =>
                   l.st = "listening" /\ sockets[l.fd].open )

\* the loop returned with the IPv4 listener alone: it is freed, its socket
\* closed, the absent IPv6 listener untouched, and the locks released
C23_Witness ==
  /\ pc = "exit" /\ exit_at = "teardown" /\ exit_status = EXIT_SUCCESS
  /\ evlistener6 = NoListener /\ evlistener4.st = "freed"
  /\ \A f \in FdPool : ~ sockets[f].open
  /\ ssl_lock = [ setup |-> 1, teardown |-> 1 ]

\* the positions of main() at which the store is written
StoreWriters ==
  { "getopt", "conf_exists", "parse", "cert_tree", "subcerts", "set_mode",
    "resolve_backend", "resolve_proxy", "syslog", "rate_limit" }

\* C24: a step changes the configuration store only at a position of
\* main() before event_loop() is called; no step from the creation of the
\* ListenHandler on (that step included) changes any field of the store,
\* nor the TLS contexts and the certificate tree.
C24_StoreReadOnlyFromHandler ==
  [][ /\ cfg' # cfg => pc \in StoreWriters /\ ~ handler.made
      /\ (pc = "event_loop" \/ handler.made) =>
           /\ cfg' = cfg
           /\ ssl_ctxs' = ssl_ctxs /\ cert_tree' = cert_tree ]_vars

\* the store was filled by the bootstrap (mode, backend protocol, backend
\* address) and the run is in the event loop with worker threads made
C24_Witness ==
  /\ pc = "event_base_loop" /\ loop = "running"
  /\ handler.made
  /\ cfg.client_mode /\ cfg.downstream_proto = "PROTO_SPDY"
  /\ cfg.downstream_addr # NULL
  /\ workers.threads = 2

\* the positions of the cross-field validation
Validation == { "check_family", "check_mode", "check_tls" }

\* C25: a TLS context or a certificate tree exists only once the
\* validation has passed; a run that the validation ends (both backend
\* family flags, more than one mode flag, missing key or certificate) has
\* built no context and no tree.
C25_ContextsAfterValidation ==
  /\ (ssl_ctxs # << >> \/ cert_tree # {} \/ cfg.cert_tree # NULL) =>
       Past("check_tls")
  /\ (pc = "exit" /\ exit_at \in Validation) =>
       /\ exit_status = EXIT_FAILURE
       /\ ssl_ctxs = << >> /\ cert_tree = {} /\ cfg.cert_tree = NULL

\* --client --http2-proxy server.key server.crt: the primary context was
\* built from the two files, then the mode check ended the run
C25_Witness ==
  /\ pc = "exit" /\ exit_at = "check_mode" /\ exit_status = EXIT_FAILURE
  /\ cfg.client /\ cfg.http2_proxy
  /\ ssl_ctxs = << "server.crt" >>
  /\ cfg.default_ssl_ctx = 1

\* the backend address is in the store, and the proxy address too when a
\* proxy host is configured
BackendResolved ==
  /\ cfg.downstream_addr \in { "AF_INET", "AF_INET6" }
  /\ cfg.downstream_http_proxy_host # NULL =>
       cfg.downstream_http_proxy_addr \in { "AF_INET", "AF_INET6" }

\* openlog() has been called if --syslog is configured
SyslogReady == cfg.use_syslog = cfg.syslog

\* the rate-limit descriptor is in the store
RateLimitBuilt == Len(cfg.rate_limit_cfg) = 4

\* something of event_loop() exists: the handler, the daemon, the PID
\* file, a listening socket or a listener
EventLoopStarted ==
  \/ handler.made \/ daemonized \/ pid_file # << "absent" >>
  \/ \E f \in FdPool : sockets[f].open
  \/ evlistener6.st # "null" \/ evlistener4.st # "null"

C27_DaemonAndPidBeforeSockets ==
  [] ( /\ (\E f \in FdPool : sockets[f].open) => Reached("listen6")
       /\ (evlistener6.st # "null" \/ evlistener4.st # "null") =>
            Reached("after6")
       /\ Reached("listen6") =>
            /\ daemonized = cfg.daemon
            /\ (pid_file # << "absent" >>) = (cfg.pid_file # NULL)
            /\ cfg.pid_file # NULL => IsDecimalLine(pid_file, pid)
       /\ (pc = "exit" /\ exit_at = "check_listeners") =>
            /\ exit_status = EXIT_FAILURE
            /\ evlistener6.st = "null" /\ evlistener4.st = "null"
            /\ daemonized = cfg.daemon
            /\ cfg.pid_file # NULL => IsDecimalLine(pid_file, pid) )

\* --daemon --pid-file: the daemon wrote its PID file, then no family gave
\* a listener and the run ended with a failure status
C27_Witness ==
  /\ pc = "exit" /\ exit_at = "check_listeners"
  /\ exit_status = EXIT_FAILURE
  /\ cfg.daemon /\ daemonized
  /\ cfg.pid_file # NULL /\ IsDecimalLine(pid_file, pid)
  /\ \A f \in FdPool : ~ sockets[f].open

\* the descriptors of the open sockets of a family
OpenSockets(family) ==
  { f \in FdPool : sockets[f].open /\ sockets[f].family = family }

\* the descriptor a listener holds, as a set
ListenerSocket(l) == IF l.st = "listening" THEN { l.fd } ELSE {}

\* C28: close() is never called on a descriptor that is not open (so no
\* socket is closed twice); between two candidates, and when the loop is
\* over without a bound candidate, no socket of the family is open; the
\* only sockets ever left open are bound ones, at most one per family;
\* once a call of create_evlistener has returned, the open sockets of its
\* family are exactly the one its listener holds, or none when the family
\* is absent.
C28_NoLeakNoDoubleClose ==
  [] ( LET open6 == OpenSockets("AF_INET6")
           open4 == OpenSockets("AF_INET")
       IN  /\ ~ bad_close
           /\ \A f \in FdPool : sockets[f].open => sockets[f].bound
           /\ Cardinality(open6) <= 1
           /\ Cardinality(open4) <= 1
           /\ pc \in { "listen6", "loop6" } => open6 = {}
           /\ pc \in { "listen6", "loop6", "after6", "listen4", "loop4" } =>
                open4 = {}
           /\ (pc \in { "after6", "after4" } /\ rp = 0) =>
                OpenSockets(CeFamily) = {}
           /\ (pc \in { "after6", "after4" } /\ rp # 0) =>
                OpenSockets(CeFamily) = { fd }
           /\ Reached("listen4") => open6 = ListenerSocket(evlistener6)
           /\ Reached("check_listeners") => open4 = ListenerSocket(evlistener4) )

\* no IPv4 candidate was bound and the IPv4 call has returned NULL: the
\* only open socket is the one the IPv6 listener holds
C28_Witness ==
  /\ pc = "check_listeners"
  /\ evlistener4 = NoListener /\ evlistener6.st = "listening"
  /\ \A f \in FdPool : sockets[f].open = (f = evlistener6.fd)
  /\ "Listening IPv4 socket failed" \in log

\* C29: once the ListenHandler is made, its server-side context is absent
\* (0 stands for nullptr) exactly when client mode (--client or
\* --client-proxy) or --frontend-no-tls is in effect, and is the primary
\* context otherwise; a client context was created exactly when the
\* backend protocol is HTTP/2 (client mode or --http2-bridge) and
\* --backend-no-tls is not set; before that step there is no handler.
C29_HandlerContexts ==
  [] ( /\ handler.made =>
            LET clientMode == cfg.client \/ cfg.client_proxy
                noServer   == clientMode \/ cfg.upstream_no_tls
            IN  /\ (handler.sv_ssl_ctx = 0) = noServer
                /\ ~ noServer =>
                     /\ handler.sv_ssl_ctx = cfg.default_ssl_ctx
                     /\ handler.sv_ssl_ctx \in 1..Len(ssl_ctxs)
                     /\ ssl_ctxs[handler.sv_ssl_ctx] = cfg.cert_file
                /\ handler.cl_ssl_ctx =
                     ((clientMode \/ cfg.http2_bridge) /\ ~ cfg.downstream_no_tls)
                /\ (cfg.downstream_proto = "PROTO_SPDY") =
                     (clientMode \/ cfg.http2_bridge)
       /\ ~ handler.made => handler = NoHandler
       /\ handler.made = Past("event_loop") )

\* --http2-bridge with key and certificate: the handler has the primary
\* context for the frontend and a client context for the backend
C29_Witness ==
  /\ handler.made
  /\ cfg.http2_bridge /\ ~ cfg.client_mode
  /\ handler.sv_ssl_ctx = 1 /\ ssl_ctxs = << "server.crt" >>
  /\ handler.cl_ssl_ctx

\* C30: once the step after drop_privileges() is taken, worker threads
\* exist exactly when the configured worker count is greater than 1 (as
\* many as configured), the HTTP/2 session exists exactly when the count
\* is at most 1 and the backend protocol is HTTP/2 (client mode or
\* --http2-bridge), never both, and neither with a count of at most 1 and
\* an HTTP/1.1 backend; before that step neither exists.
C30_WorkersOrSession ==
  [] ( /\ ~ (workers.threads > 0 /\ workers.http2_session)
       /\ Past("workers") =>
            LET http2 == cfg.client \/ cfg.client_proxy \/ cfg.http2_bridge
            IN  /\ (workers.threads > 0) = (cfg.num_worker > 1)
                /\ workers.threads > 0 => workers.threads = cfg.num_worker
                /\ workers.http2_session = (cfg.num_worker <= 1 /\ http2)
                /\ (cfg.num_worker <= 1 /\ ~ http2) =>
                     workers = [ threads |-> 0, http2_session |-> FALSE ]
       /\ ~ Past("workers") =>
            workers = [ threads |-> 0, http2_session |-> FALSE ] )

\* --http2-bridge with one worker: the HTTP/2 session is made, no thread
C30_Witness ==
  /\ pc = "event_base_loop"
  /\ cfg.http2_bridge /\ cfg.num_worker = 1
  /\ workers = [ threads |-> 0, http2_session |-> TRUE ]

=============================================================================
